---------------------------- MODULE Spec2Model ----------------------------
(***************************************************************************)
(* A model of the timeline-fishbone generator: the layout engine           *)
(* (core/layout_engine.py), the colour mapping (core/config.py) and the    *)
(* LaTeX generator (core/latex_generator.py).                              *)
(*                                                                         *)
(* Conventions.                                                            *)
(*  - A DataFrame is a sequence of records [year, category, name, ref]     *)
(*    (the columns 年份, 种类, 方法名, 引用标识), in file order.           *)
(*  - Lengths (cm) are exact decimals held as integers in tenths of a      *)
(*    centimetre: 2.7cm is 27.  max_nodes * 2.5 is max_nodes * 25 and      *)
(*    max_nodes * 0.6 is max_nodes * 6.  Where binary floating point       *)
(*    prints 3 * 0.6 as 1.7999999999999998, the model prints 1.8.          *)
(*  - A rule string (upper_years) is a sequence of one-character strings,  *)
(*    so that lower(), split(","), strip() and int() are computed.         *)
(*  - LaTeX text is a sequence of tokens.  Every brace the code emits is   *)
(*    a token of its own, "{" or "}"; a line break is the token "\n".      *)
(***************************************************************************)
EXTENDS Integers, Sequences, FiniteSets, TLC

VARIABLES
    cfg,              \* the configuration the generator/engine was built with
    df,               \* the caller's DataFrame
    arg,              \* the DataFrame passed to the last call
    year_order,       \* SmartLayoutEngine._year_order
    layout_params,    \* the value returned by the last calculate_layout
    category_colors,  \* LaTeXGenerator.category_colors
    parts,            \* the list `parts` of the last generate call
    out,              \* the string returned by the last generate call
    order_before,     \* _year_order when the last generate call began
    side_query,       \* the year passed to the last direct determine_side call
    side_result,      \* what that call returned
    warned,           \* whether that call logged the "invalid rule" warning
    last_op,          \* the operation that ran last
    call,             \* the arguments of the last direct call of a function
    result,           \* what that call returned
    threads           \* the generate invocations that run concurrently

vars == << cfg, df, arg, year_order, layout_params, category_colors, parts, out,
           order_before, side_query, side_result, warned, last_op,
           call, result, threads >>

-----------------------------------------------------------------------------
(* Bounds of the model.                                                    *)

\* The longest DataFrame the generator is given.
MaxRecords == 3
\* The longest DataFrame the layout engine is given when called directly.
MaxRows == 3
\* The longest DataFrame _generate_method_nodes is given when called directly.
MaxNodeRows == 5
\* The most categories a list given to get_category_colors holds beyond its
\* leading block.
MaxCategories == 3
\* The longest DataFrame the validator is given.
MaxValidatedRows == 2

-----------------------------------------------------------------------------
(* Generic helpers.                                                        *)

Max(a, b) == IF a >= b THEN a ELSE b
Min(a, b) == IF a <= b THEN a ELSE b

Range(s) == { s[i] : i \in 1..Len(s) }

\* The index of the first occurrence of x in s; 0 when absent.
IndexOf(s, x) ==
    IF \E i \in 1..Len(s) : s[i] = x
    THEN CHOOSE i \in 1..Len(s) : s[i] = x /\ \A j \in 1..(i-1) : s[j] # x
    ELSE 0

RECURSIVE SortedInts(_)
\* sorted(S) for a finite set of integers
SortedInts(S) ==
    IF S = {} THEN << >>
    ELSE LET m == CHOOSE x \in S : \A y \in S : x <= y
         IN  << m >> \o SortedInts(S \ {m})

RECURSIVE Flatten(_)
\* The concatenation of a sequence of sequences.
Flatten(ss) ==
    IF ss = << >> THEN << >> ELSE Head(ss) \o Flatten(Tail(ss))

-----------------------------------------------------------------------------
(* Configuration: core/config.py.                                          *)

\* LayoutConfig() with its default field values
DefaultLayout ==
    [ timeline_width |-> "16cm", year_spacing |-> 27, branch_distance |-> 12,
      spine_length |-> 4, smart_spacing |-> FALSE, min_year_spacing |-> 20 ]

\* The rule strings used below, one character per element.
RuleOrder    == << "o", "r", "d", "e", "r" >>
RuleSequence == << "S", "e", "q", "u", "e", "n", "c", "e" >>
RuleIndex    == << "I", "N", "D", "E", "X" >>
RuleOdd      == << "o", "d", "d" >>
RuleOddCaps  == << "O", "D", "D" >>
RuleEven     == << "E", "v", "e", "n" >>
RuleList     == << "2", "0", "2", "0", ",", " ", "2", "0", "2", "3" >>
RuleListOne  == << "2", "0", "2", "1", "," >>
RuleBadToken == << "2", "0", "2", "0", ",", "x" >>
RuleBadWord  == << "o", "d", "d", "s" >>
RuleEmpty    == << >>

\* TimeLogicConfig() with its default field values
DefaultTimeLogic ==
    [ time_direction |-> "right", start_year |-> 2019, end_year |-> 2025,
      upper_years |-> RuleOrder, lower_years |-> "even" ]

-----------------------------------------------------------------------------
(* String operations on rule strings (sequences of characters).            *)

UpperLetters == << "A","B","C","D","E","F","G","H","I","J","K","L","M",
                   "N","O","P","Q","R","S","T","U","V","W","X","Y","Z" >>
LowerLetters == << "a","b","c","d","e","f","g","h","i","j","k","l","m",
                   "n","o","p","q","r","s","t","u","v","w","x","y","z" >>
Digits == << "0","1","2","3","4","5","6","7","8","9" >>

\* The lower-case letter of every upper-case letter.
LowerOf == [ c \in Range(UpperLetters) |-> LowerLetters[IndexOf(UpperLetters, c)] ]

\* str.lower()
Lower(s) ==
    [ i \in 1..Len(s) |-> IF s[i] \in DOMAIN LowerOf THEN LowerOf[s[i]] ELSE s[i] ]

RECURSIVE SplitComma(_)
\* str.split(","): the pieces between commas (one piece more than commas)
SplitComma(s) ==
    LET k == IndexOf(s, ",")
    IN  IF k = 0 THEN << s >>
        ELSE << SubSeq(s, 1, k - 1) >> \o SplitComma(SubSeq(s, k + 1, Len(s)))

IsSpace(c) == c \in { " ", "\t", "\n" }

RECURSIVE Strip(_)
\* str.strip()
Strip(s) ==
    IF s = << >> THEN s
    ELSE IF IsSpace(Head(s)) THEN Strip(Tail(s))
    ELSE IF IsSpace(s[Len(s)]) THEN Strip(SubSeq(s, 1, Len(s) - 1))
    ELSE s

RECURSIVE DigitsValue(_)
DigitsValue(s) ==
    IF s = << >> THEN 0
    ELSE 10 * DigitsValue(SubSeq(s, 1, Len(s) - 1))
         + (IndexOf(Digits, s[Len(s)]) - 1)

\* int(s) that would take any token, reading a non-number as 0.
ParseIntLenient(s) == [ ok |-> TRUE, value |-> 0 ]

\* int(s) for a stripped token: ok is FALSE where int raises ValueError.
ParseInt(s) ==
    LET signed == s # << >> /\ Head(s) \in { "+", "-" }
        body   == IF signed THEN Tail(s) ELSE s
        good   == body # << >> /\ \A i \in 1..Len(body) : IndexOf(Digits, body[i]) # 0
    IN  [ ok    |-> good,
          value |-> IF ~good THEN 0
                    ELSE IF signed /\ Head(s) = "-" THEN 0 - DigitsValue(body)
                    ELSE DigitsValue(body) ]

-----------------------------------------------------------------------------
(* The layout engine: core/layout_engine.py.                               *)

\* The horizontal room one node needs, max_nodes * 2.5 (tenths of a cm).
ReqWidthPerNode == 25
\* The vertical room one node needs, max_nodes * 0.6 (tenths of a cm).
BranchPerNode == 6

\* df["年份"].unique(), as a set
YearsOf(d) == { d[i].year : i \in 1..Len(d) }

\* df["年份"].unique() left unsorted: the years in order of first appearance
UniqueYears(d) ==
    LET first == { i \in 1..Len(d) : \A j \in 1..(i - 1) : d[j].year # d[i].year }
        idx   == SortedInts(first)
    IN  [ k \in 1..Len(idx) |-> d[idx[k]].year ]

\* The year column sorted without unique(): a year once per row.
YearsWithRepeats(d) ==
    LET RECURSIVE Insert(_, _)
        Insert(sorted, y) ==
            IF sorted = << >> \/ y <= Head(sorted) THEN << y >> \o sorted
            ELSE << Head(sorted) >> \o Insert(Tail(sorted), y)
        RECURSIVE Build(_)
        Build(k) == IF k = 0 THEN << >> ELSE Insert(Build(k - 1), d[k].year)
    IN  Build(Len(d))

\* sorted(df["年份"].unique())
SortedYears(d) == SortedInts(YearsOf(d))

\* df.groupby("年份").size().to_dict()
YearCounts(d) ==
    [ y \in YearsOf(d) |-> Cardinality({ i \in 1..Len(d) : d[i].year = y }) ]

\* max(year_counts.values()) if year_counts else 1
MaxNodes(d) ==
    LET yc == YearCounts(d)
    IN  IF DOMAIN yc = {} THEN 1
        ELSE CHOOSE m \in { yc[y] : y \in DOMAIN yc } :
                 \A y \in DOMAIN yc : yc[y] <= m

\* The smart spacing without the cap at the base spacing.
AdjustedSpacingUncapped(layout, max_nodes) ==
    IF layout.smart_spacing
    THEN Max(layout.min_year_spacing, max_nodes * ReqWidthPerNode)
    ELSE layout.year_spacing

\* max(min_year_spacing, min(req_width, base_spacing)) when smart_spacing,
\* else year_spacing
AdjustedSpacing(layout, max_nodes) ==
    IF layout.smart_spacing
    THEN Max(layout.min_year_spacing,
             Min(max_nodes * ReqWidthPerNode, layout.year_spacing))
    ELSE layout.year_spacing

\* The smart branch distance taking the smaller of the two.
AdjustedBranchSmaller(layout, max_nodes) ==
    IF layout.smart_spacing
    THEN Min(layout.branch_distance, max_nodes * BranchPerNode)
    ELSE layout.branch_distance

\* max(base_branch, max_nodes * 0.6) when smart_spacing, else branch_distance
AdjustedBranch(layout, max_nodes) ==
    IF layout.smart_spacing
    THEN Max(layout.branch_distance, max_nodes * BranchPerNode)
    ELSE layout.branch_distance

\* A position proportional to the numeric gap from the first year.
YearPositionByGap(years, y, spacing) == (y - years[1]) * spacing

\* year_pos = start + i * adjusted_spacing, i the index of the year in years
YearPosition(years, y, spacing) == 0 + (IndexOf(years, y) - 1) * spacing

\* The year order kept from an earlier call (as get_node_distribution does).
StoreYearOrderIfEmpty(old, years) == IF old = << >> THEN years ELSE old

\* An engine that never stores the year order.
StoreYearOrderNever(old, years) == old

\* self._year_order = years
StoreYearOrder(old, years) == years

\* SmartLayoutEngine.calculate_layout: the dictionary it returns.
CalculateLayout(layout, d) ==
    LET years   == SortedYears(d)
        maxn    == MaxNodes(d)
        spacing == AdjustedSpacing(layout, maxn)
    IN  [ year_counts      |-> YearCounts(d),
          max_nodes        |-> maxn,
          years            |-> years,
          positions        |-> [ y \in YearsOf(d) |->
                                   YearPosition(years, y, spacing) ],
          adjusted_spacing |-> spacing,
          adjusted_branch  |-> AdjustedBranch(layout, maxn),
          total_width      |-> IF Len(years) > 1
                               THEN (Len(years) - 1) * spacing
                               ELSE 0 ]

\* The keywords determine_side compares the lower-cased rule with.
KwOrder    == << "o", "r", "d", "e", "r" >>
KwSequence == << "s", "e", "q", "u", "e", "n", "c", "e" >>
KwIndex    == << "i", "n", "d", "e", "x" >>
KwOdd      == << "o", "d", "d" >>
KwEven     == << "e", "v", "e", "n" >>

\* The side by the parity of a one-based index.
SideByOrderOneBased(order, year) ==
    IF IndexOf(order, year) % 2 = 0 THEN "above" ELSE "below"

\* The side by index parity: year_order.index(year), 0 on ValueError.
SideByOrder(order, year) ==
    LET index == IF IndexOf(order, year) # 0 THEN IndexOf(order, year) - 1 ELSE 0
    IN  IF index % 2 = 0 THEN "above" ELSE "below"

\* [int(y.strip()) for y in year_strs if y.strip()]: the tokens kept
ListTokens(rule) ==
    SelectSeq([ i \in 1..Len(SplitComma(rule)) |-> Strip(SplitComma(rule)[i]) ],
              LAMBDA t : t # << >>)

\* determine_side once upper_rule is computed: the side returned, and
\* whether the "invalid upper_years rule" warning was logged.
SideForRule(upper_rule, order, year) ==
    LET yorder     == IF order # << >> THEN order ELSE << year >>
        tokens     == ListTokens(upper_rule)
        parsed     == [ i \in 1..Len(tokens) |-> ParseInt(tokens[i]) ]
        upper_list == { parsed[i].value : i \in 1..Len(parsed) }
    IN  IF upper_rule \in { KwOrder, KwSequence, KwIndex }
        THEN [ side |-> SideByOrder(yorder, year), warned |-> FALSE ]
        ELSE IF upper_rule = KwOdd
        THEN [ side |-> IF year % 2 = 1 THEN "above" ELSE "below",
               warned |-> FALSE ]
        ELSE IF upper_rule = KwEven
        THEN [ side |-> IF year % 2 = 0 THEN "above" ELSE "below",
               warned |-> FALSE ]
        ELSE IF \E i \in 1..Len(parsed) : ~parsed[i].ok
        THEN [ side |-> SideByOrder(yorder, year), warned |-> TRUE ]
        ELSE [ side |-> IF year \in upper_list THEN "above" ELSE "below",
               warned |-> FALSE ]

\* determine_side comparing the rule as written, without lower().
DetermineSideCaseSensitive(time_config, order, year) ==
    SideForRule(time_config.upper_years, order, year)

\* SmartLayoutEngine.determine_side
DetermineSide(time_config, order, year) ==
    SideForRule(Lower(time_config.upper_years), order, year)

-----------------------------------------------------------------------------
(* Text.  A string the generator emits is a sequence of tokens; config     *)
(* strings and colours are token sequences too (a colour is cut at "!").   *)

NL == "\n"

\* The non-ASCII literals of the source, by name.
FullStop    == "<U+3002>"
LegendTitle == "<legend title>"

RECURSIVE JoinLines(_)
\* "\n".join(lines)
JoinLines(lines) ==
    IF lines = << >> THEN << >>
    ELSE IF Len(lines) = 1 THEN lines[1]
    ELSE lines[1] \o << NL >> \o JoinLines(Tail(lines))

RECURSIVE JoinComma(_)
\* ",".join(items), every item one token
JoinComma(items) ==
    IF items = << >> THEN << >>
    ELSE IF Len(items) = 1 THEN << items[1] >>
    ELSE << items[1], "," >> \o JoinComma(Tail(items))

\* str(x) of a length held in tenths: 27 is "2.7", -4 is "-0.4"
FmtCm(x) ==
    LET a == IF x < 0 THEN 0 - x ELSE x
    IN  (IF x < 0 THEN "-" ELSE "") \o ToString(a \div 10) \o "."
        \o ToString(a % 10)

\* str(year)
FmtYear(y) == ToString(y)

\* VisualConfig() with its default field values
DefaultVisual ==
    [ node_width |-> << "2.6cm" >>, node_height |-> << "0.5cm" >>,
      node_font |-> << "\\tiny\\bfseries" >>, ref_font |-> << "\\tiny" >>,
      inner_sep |-> << "1.5pt" >>, line_width |-> << "0.8pt" >>,
      rounded_corners |-> << "3pt" >>, max_lines |-> 1 ]

\* ColorConfig() with its default field values
DefaultColors ==
    [ color_single    |-> << "cyan", "!", "20" >>,
      color_multi     |-> << "green", "!", "20" >>,
      color_adaptive  |-> << "yellow", "!", "40" >>,
      color_vl        |-> << "purple", "!", "20" >>,
      color_dense     |-> << "orange", "!", "30" >>,
      color_attention |-> << "red", "!", "20" >>,
      color_hybrid    |-> << "gray", "!", "30" >>,
      axis_color      |-> << "black", "!", "70" >>,
      conn_color      |-> << "gray", "!", "60" >> ]

\* ColorConfig.DEFAULT_COLORS
DEFAULT_COLORS ==
    << << "cyan", "!", "20" >>, << "green", "!", "20" >>,
       << "yellow", "!", "40" >>, << "purple", "!", "20" >>,
       << "orange", "!", "30" >>, << "red", "!", "20" >>,
       << "blue", "!", "20" >>, << "pink", "!", "20" >>,
       << "teal", "!", "20" >>, << "lime", "!", "30" >>,
       << "magenta", "!", "20" >>, << "brown", "!", "20" >>,
       << "violet", "!", "20" >>, << "olive", "!", "30" >>,
       << "navy", "!", "20" >>, << "maroon", "!", "20" >>,
       << "gray", "!", "30" >>, << "indigo", "!", "20" >>,
       << "gold", "!", "30" >>, << "coral", "!", "20" >> >>

\* ArrowConfig() with its default field values
DefaultArrows ==
    [ arrow_style |-> << "-", "{", "Stealth[length=3mm, width=2mm]", "}" >>,
      arrow_color |-> << "gray", "!", "70" >>,
      arrow_shorten |-> << "0.38cm" >> ]

\* OutputConfig() with its default field values
DefaultOutput ==
    [ input_file |-> "", output_file |-> "timeline.tex", show_legend |-> TRUE,
      caption |-> << "<caption>" >>, label |-> << "fig:timeline" >>,
      adjustbox_width |-> << "0.8\\textwidth" >> ]

\* TimelineFishboneConfig() with its default field values
DefaultConfig ==
    [ layout |-> DefaultLayout, time_logic |-> DefaultTimeLogic,
      visual |-> DefaultVisual, colors |-> DefaultColors,
      arrows |-> DefaultArrows, output |-> DefaultOutput ]

-----------------------------------------------------------------------------
(* Categories and their colours: ColorConfig.get_category_colors.          *)

\* Twenty more category names, as many as the palette has colours.
Fillers ==
    << "ba", "bb", "bc", "bd", "be", "bf", "bg", "bh", "bi", "bj",
       "bk", "bl", "bm", "bn", "bo", "bp", "bq", "br", "bs", "bt" >>

\* The letters of the category names the model uses.
Spell(cat) ==
    CASE cat = "singleproto" -> << "s","i","n","g","l","e","p","r","o","t","o" >>
      [] cat = "multiproto"  -> << "m","u","l","t","i","p","r","o","t","o" >>
      [] cat = "adaptive"    -> << "a","d","a","p","t","i","v","e" >>
      [] cat = "vl"          -> << "v","l" >>
      [] cat = "dense"       -> << "d","e","n","s","e" >>
      [] cat = "attention"   -> << "a","t","t","e","n","t","i","o","n" >>
      [] cat = "hybrid"      -> << "h","y","b","r","i","d" >>
      [] cat = "cnn"         -> << "c","n","n" >>
      [] cat = "zeta"        -> << "z","e","t","a" >>
      [] cat \in Range(Fillers) ->
             << "b", LowerLetters[IndexOf(Fillers, cat)] >>

RECURSIVE LexLess(_, _)
\* a < b for two strings of lower-case letters
LexLess(a, b) ==
    IF b = << >> THEN FALSE
    ELSE IF a = << >> THEN TRUE
    ELSE IF Head(a) = Head(b) THEN LexLess(Tail(a), Tail(b))
    ELSE IndexOf(LowerLetters, Head(a)) < IndexOf(LowerLetters, Head(b))

RECURSIVE SortedCats(_)
\* sorted(categories)
SortedCats(S) ==
    IF S = {} THEN << >>
    ELSE LET m == CHOOSE x \in S :
                    \A y \in S \ {x} : LexLess(Spell(x), Spell(y))
         IN  << m >> \o SortedCats(S \ {m})

RECURSIVE Unique(_)
\* df["种类"].unique().tolist(): the categories in order of first appearance
Unique(cats) ==
    IF cats = << >> THEN << >>
    ELSE LET init == Unique(SubSeq(cats, 1, Len(cats) - 1))
             last == cats[Len(cats)]
         IN  IF last \in Range(init) THEN init ELSE Append(init, last)

CategoriesOf(d) == Unique([ i \in 1..Len(d) |-> d[i].category ])

\* legacy_mapping of get_category_colors
LegacyMapping(colors) ==
    [ cat \in { "singleproto", "multiproto", "adaptive", "vl", "dense",
                "attention", "hybrid" } |->
        CASE cat = "singleproto" -> colors.color_single
          [] cat = "multiproto"  -> colors.color_multi
          [] cat = "adaptive"    -> colors.color_adaptive
          [] cat = "vl"          -> colors.color_vl
          [] cat = "dense"       -> colors.color_dense
          [] cat = "attention"   -> colors.color_attention
          [] cat = "hybrid"      -> colors.color_hybrid ]

RECURSIVE SortedList(_)
\* sorted(categories) of a list: a category stands once for each time it is
\* in the list
SortedList(cats) ==
    IF cats = << >> THEN << >>
    ELSE LET rest == SortedList(Tail(cats))
             x    == Head(cats)
             k    == Cardinality({ i \in 1..Len(rest) :
                                     LexLess(Spell(rest[i]), Spell(x)) })
         IN  SubSeq(rest, 1, k) \o << x >> \o SubSeq(rest, k + 1, Len(rest))

\* The index the loop `for i, category in enumerate(...)` has when it sets
\* color_map[x] for the last time.
LastIndexOf(s, x) ==
    CHOOSE i \in 1..Len(s) : s[i] = x /\ \A j \in (i + 1)..Len(s) : s[j] # x

\* get_category_colors with the mapping started from legacy_mapping.
GetCategoryColorsWithLegacy(colors, categories) ==
    LET sorted == SortedList(categories)
        legacy == LegacyMapping(colors)
    IN  [ cat \in Range(categories) \cup DOMAIN legacy |->
            IF cat \in DOMAIN legacy THEN legacy[cat]
            ELSE DEFAULT_COLORS[((LastIndexOf(sorted, cat) - 1)
                                  % Len(DEFAULT_COLORS)) + 1] ]

\* get_category_colors ranking a category among the unknown ones only.
GetCategoryColorsUnknownRank(colors, categories) ==
    LET legacy == LegacyMapping(colors)
        sorted == SortedList(SelectSeq(categories,
                                       LAMBDA c : c \notin DOMAIN legacy))
    IN  [ cat \in Range(categories) |->
            IF cat \in DOMAIN legacy THEN legacy[cat]
            ELSE DEFAULT_COLORS[((LastIndexOf(sorted, cat) - 1)
                                  % Len(DEFAULT_COLORS)) + 1] ]

\* ColorConfig.get_category_colors
GetCategoryColors(colors, categories) ==
    LET sorted == SortedList(categories)
        legacy == LegacyMapping(colors)
    IN  [ cat \in Range(categories) |->
            IF cat \in DOMAIN legacy THEN legacy[cat]
            ELSE DEFAULT_COLORS[((LastIndexOf(sorted, cat) - 1)
                                  % Len(DEFAULT_COLORS)) + 1] ]

\* color.split("!")[0] if "!" in color else color
BaseColor(color) ==
    IF "!" \in Range(color) THEN SubSeq(color, 1, IndexOf(color, "!") - 1)
    ELSE color

\* f"{base_color}!60!black"
BorderColor(color) == BaseColor(color) \o << "!", "60", "!", "black" >>

-----------------------------------------------------------------------------
(* The LaTeX generator: core/latex_generator.py.  Every section is the     *)
(* list `lines` the method builds, joined with "\n".                       *)

\* LaTeXGenerator._generate_preamble
GeneratePreamble(c) ==
    JoinLines(<<
        << "% Required packages/settings (add these in LaTeX preamble):" >>,
        << "% \\usepackage", "{", "tikz", "}" >>,
        << "% \\usepackage", "{", "xcolor", "}" >>,
        << "% \\usepackage", "{", "adjustbox", "}", " % provide smart scaling" >>,
        << "% \\usepackage", "{", "geometry", "}" >>,
        << "% \\geometry", "{", "a4paper, left=2.5cm, right=2.5cm," >>,
        << "%   top=2.5cm, bottom=2.5cm", "}" >>,
        << "% \\usetikzlibrary", "{", "positioning, matrix, fit," >>,
        << "%   backgrounds, shapes, arrows.meta", "}" >>,
        << >>,
        << "\\begin", "{", "figure", "}", "[htbp]" >>,
        << "\\centering" >>,
        << "\\begin", "{", "adjustbox", "}", "{", "center, max width=" >>
            \o c.output.adjustbox_width
            \o << ", max height=0.8\\textheight, keepaspectratio", "}" >>,
        << "\\pgfdeclarelayer", "{", "background", "}" >>,
        << "\\pgfdeclarelayer", "{", "foreground", "}" >>,
        << "\\pgfsetlayers", "{", "background,main,foreground", "}" >>,
        << "\\begin", "{", "tikzpicture", "}", "[" >>,
        << "    scale=1.0," >>,
        << "    transform shape," >>,
        << "    font=\\footnotesize\\sffamily," >> >>)

\* The style definition of one category (style_def of _generate_styles)
StyleDef(c, colors, cat) ==
    << "    ", cat, "/.style=", "{", NL, "        fill=" >> \o colors[cat]
    \o << ", draw=" >> \o BorderColor(colors[cat])
    \o << ", line width=" >> \o c.visual.line_width \o << ",", NL >>
    \o << "        rounded corners=" >> \o c.visual.rounded_corners
    \o << ", minimum width=" >> \o c.visual.node_width
    \o << ", minimum height=" >> \o c.visual.node_height \o << ",", NL >>
    \o << "        align=center, font=" >> \o c.visual.node_font
    \o << ", text=black!80, inner sep=" >> \o c.visual.inner_sep
    \o << NL, "    ", "}", "," >>

\* LaTeXGenerator._generate_styles, with self.category_colors already set
GenerateStyles(c, colors, categories) ==
    LET sorted == SortedCats(Range(categories))
    IN  JoinLines(
          << << "    % ========================================" >>,
             << "    % Category color definitions" >>,
             << "    % ========================================" >> >>
          \o [ i \in 1..Len(sorted) |-> StyleDef(c, colors, sorted[i]) ]
          \o << << "    year/.style=", "{" >>,
                << "        circle, fill=white, draw=black," >>,
                << "        line width=1.2pt," >>,
                << "        minimum size=0.75cm, font=\\bfseries\\footnotesize, inner sep=0pt" >>,
                << "    ", "}", "," >>,
                << "    axis/.style=", "{" >>,
                << "        line width=1.5pt, draw=" >> \o c.colors.axis_color,
                << "    ", "}", "," >>,
                << "    arrow/.style=", "{" >>,
                << "        " >> \o c.arrows.arrow_style \o << "," >>,
                << "        line width=0.8pt," >>,
                << "        draw=" >> \o c.arrows.arrow_color \o << "," >>,
                << "        shorten >=" >> \o c.arrows.arrow_shorten \o << "," >>,
                << "        shorten <=" >> \o c.arrows.arrow_shorten,
                << "    ", "}", "," >>,
                << "    spine/.style=", "{" >>,
                << "        line width=0.8pt, draw=gray!50, -" >>,
                << "    ", "}", "," >>,
                << "    conn/.style=", "{" >>,
                << "        line width=0.5pt, draw=" >> \o c.colors.conn_color,
                << "    ", "}", "," >>,
                << "    methodmatrix/.style=", "{" >>,
                << "        matrix of nodes, row sep=4pt, column sep=3pt," >>,
                << "        nodes in empty cells, inner sep=0pt" >>,
                << "    ", "}" >>,
                << "]" >> >>)

\* LaTeXGenerator._format_method_text
FormatMethodText(c, name, ref) ==
    LET ref_cmd == << "{" >> \o c.visual.ref_font
                   \o << "\\cite", "{", ref, "}", "}" >>
    IN  IF c.visual.max_lines = 1
        THEN << name, "~" >> \o ref_cmd
        ELSE << name, "\\\\[-2pt]" >> \o ref_cmd

\* total_width as the axis line prints it: the int 0 when there is at most
\* one year, a float otherwise
FmtTotalWidth(lp) ==
    IF Len(lp.years) > 1 THEN FmtCm(lp.total_width) ELSE "0"

\* The axis section with the arrow loop emitted for a single year too.
GenerateTimelineAxisAlwaysLoop(lp) ==
    LET years == lp.years
    IN  JoinLines(
          << << "    % ========================================" >>,
             << "    % 1. Draw timeline axis and define year coordinates" >>,
             << "    % ========================================" >>,
             << "    \\draw[axis] (0,0) -- (", FmtTotalWidth(lp), ",0);" >>,
             << >>,
             << "    % Define year positions" >> >>
          \o [ i \in 1..Len(years) |->
                 << "    \\coordinate (Y", FmtYear(years[i]), ") at (",
                    FmtCm(lp.positions[years[i]]), ",0);" >> ]
          \o ( IF Len(years) > 0
               THEN << << >>,
                       << "    % Draw arrows between year nodes" >>,
                       << "    \\foreach \\year/\\nextyear in ", "{" >>
                         \o JoinComma([ i \in 1..(Len(years) - 1) |->
                               FmtYear(years[i]) \o "/" \o FmtYear(years[i + 1]) ])
                         \o << "}", " ", "{" >>,
                       << "        \\draw[arrow] (Y\\year) -- (Y\\nextyear);" >>,
                       << "    ", "}" >> >>
               ELSE << >> ) )

\* LaTeXGenerator._generate_timeline_axis
GenerateTimelineAxis(lp) ==
    LET years == lp.years
    IN  JoinLines(
          << << "    % ========================================" >>,
             << "    % 1. Draw timeline axis and define year coordinates" >>,
             << "    % ========================================" >>,
             << "    \\draw[axis] (0,0) -- (", FmtTotalWidth(lp), ",0);" >>,
             << >>,
             << "    % Define year positions" >> >>
          \o [ i \in 1..Len(years) |->
                 << "    \\coordinate (Y", FmtYear(years[i]), ") at (",
                    FmtCm(lp.positions[years[i]]), ",0);" >> ]
          \o ( IF Len(years) > 1
               THEN << << >>,
                       << "    % Draw arrows between year nodes" >>,
                       << "    \\foreach \\year/\\nextyear in ", "{" >>
                         \o JoinComma([ i \in 1..(Len(years) - 1) |->
                               FmtYear(years[i]) \o "/" \o FmtYear(years[i + 1]) ])
                         \o << "}", " ", "{" >>,
                       << "        \\draw[arrow] (Y\\year) -- (Y\\nextyear);" >>,
                       << "    ", "}" >> >>
               ELSE << >> ) )

\* year_groups.get_group(year): the records of a year, in file order
Group(d, year) == SelectSeq(d, LAMBDA r : r.year = year)

\* The loop body with its last branch taken for small groups only.
MatrixRowLinesSmallOnly(c, group, idx) ==
    LET row   == group[idx + 1]
        text  == FormatMethodText(c, row.name, row.ref)
        multi_col == Len(group) > 3 /\ idx % 2 = 0 /\ idx < Len(group) - 1
    IN  IF multi_col
        THEN LET next_row  == group[idx + 2]
                 next_text == FormatMethodText(c, next_row.name, next_row.ref)
             IN  << << "        \\node[", row.category, "] ", "{" >>
                      \o text \o << "}", "; &" >>,
                    << "        \\node[", next_row.category, "] ", "{" >>
                      \o next_text \o << "}", "; \\\\" >> >>
        ELSE IF ~(Len(group) > 3)
        THEN << << "        \\node[", row.category, "] ", "{" >>
                  \o text \o << "}", "; \\\\" >> >>
        ELSE << >>

\* The loop body pairing the cells of every group of more than two rows.
MatrixRowLinesPairFromThree(c, group, idx) ==
    LET row   == group[idx + 1]
        text  == FormatMethodText(c, row.name, row.ref)
        multi_col == Len(group) > 2 /\ idx % 2 = 0 /\ idx < Len(group) - 1
    IN  IF multi_col
        THEN LET next_row  == group[idx + 2]
                 next_text == FormatMethodText(c, next_row.name, next_row.ref)
             IN  << << "        \\node[", row.category, "] ", "{" >>
                      \o text \o << "}", "; &" >>,
                    << "        \\node[", next_row.category, "] ", "{" >>
                      \o next_text \o << "}", "; \\\\" >> >>
        ELSE IF ~(Len(group) > 2 /\ idx % 2 = 1)
        THEN << << "        \\node[", row.category, "] ", "{" >>
                  \o text \o << "}", "; \\\\" >> >>
        ELSE << >>

\* One pass of the loop over the rows of a matrix (idx is zero-based): the
\* lines it appends.
MatrixRowLines(c, group, idx) ==
    LET row   == group[idx + 1]
        text  == FormatMethodText(c, row.name, row.ref)
        multi_col == Len(group) > 3 /\ idx % 2 = 0 /\ idx < Len(group) - 1
    IN  IF multi_col
        THEN LET next_row  == group[idx + 2]
                 next_text == FormatMethodText(c, next_row.name, next_row.ref)
             IN  << << "        \\node[", row.category, "] ", "{" >>
                      \o text \o << "}", "; &" >>,
                    << "        \\node[", next_row.category, "] ", "{" >>
                      \o next_text \o << "}", "; \\\\" >> >>
        ELSE IF ~(Len(group) > 3 /\ idx % 2 = 1)
        THEN << << "        \\node[", row.category, "] ", "{" >>
                  \o text \o << "}", "; \\\\" >> >>
        ELSE << >>

\* The lines _generate_method_nodes appends for one year
YearNodeLines(c, d, lp, order, year) ==
    LET group == Group(d, year)
        side  == DetermineSide(c.time_logic, order, year).side
        side_mark == IF side = "above" THEN "upper" ELSE "lower"
        branch_dist == lp.adjusted_branch
    IN  << << >>,
           << "    % --- ", FmtYear(year), " (", side_mark, ") ---" >> >>
        \o ( IF Len(group) = 1
             THEN << << "    \\node[", group[1].category, ", ",
                        IF side = "above" THEN "above" ELSE "below", "=",
                        FmtCm(branch_dist), "cm of Y", FmtYear(year),
                        "] (M", FmtYear(year), ") ", "{" >>
                     \o FormatMethodText(c, group[1].name, group[1].ref)
                     \o << "}", ";" >> >>
             ELSE << << "    \\matrix[methodmatrix, ",
                        IF side = "above" THEN "above" ELSE "below", "=",
                        FmtCm(branch_dist), "cm of Y", FmtYear(year),
                        ", anchor=",
                        IF side = "above" THEN "south" ELSE "north",
                        "] (M", FmtYear(year), ") ", "{" >> >>
                  \o Flatten([ i \in 1..Len(group) |->
                                 MatrixRowLines(c, group, i - 1) ])
                  \o << << "    ", "}", ";" >> >> )

\* LaTeXGenerator._generate_method_nodes
GenerateMethodNodes(c, d, lp, order) ==
    LET years == SortedYears(d)
    IN  JoinLines(
          << << >>,
             << "    % ========================================" >>,
             << "    % 2. Define all method nodes" >>,
             << "    % ========================================" >> >>
          \o Flatten([ i \in 1..Len(years) |->
                         YearNodeLines(c, d, lp, order, years[i]) ]) )

\* A connector drawn from the side opposite to the one determine_side gives.
ConnectorLineSwapped(c, order, year) ==
    LET side == DetermineSide(c.time_logic, order, year).side
        spine_len == c.layout.spine_length
    IN  IF side = "below"
        THEN << "        \\draw[conn] (M", FmtYear(year), ".south",
                ") -- ([yshift=", FmtCm(spine_len), "cm]Y", FmtYear(year),
                ");" >>
        ELSE << "        \\draw[conn] (M", FmtYear(year), ".north",
                ") -- ([yshift=-", FmtCm(spine_len), "cm]Y", FmtYear(year),
                ");" >>

\* The connector line _generate_background_layer appends for one year
ConnectorLine(c, order, year) ==
    LET side == DetermineSide(c.time_logic, order, year).side
        spine_len == c.layout.spine_length
    IN  IF side = "above"
        THEN << "        \\draw[conn] (M", FmtYear(year), ".south",
                ") -- ([yshift=", FmtCm(spine_len), "cm]Y", FmtYear(year),
                ");" >>
        ELSE << "        \\draw[conn] (M", FmtYear(year), ".north",
                ") -- ([yshift=-", FmtCm(spine_len), "cm]Y", FmtYear(year),
                ");" >>

\* LaTeXGenerator._generate_background_layer
GenerateBackgroundLayer(c, d, order) ==
    LET years == SortedYears(d)
        years_str == JoinComma([ i \in 1..Len(years) |-> FmtYear(years[i]) ])
    IN  JoinLines(
          << << >>,
             << "    % ========================================" >>,
             << "    % 3. Draw all connections in background layer" >>,
             << "    % ========================================" >>,
             << "    \\begin", "{", "pgfonlayer", "}", "{", "background", "}" >>,
             << "        % Year node spines" >>,
             << "        \\foreach \\year in ", "{" >> \o years_str
               \o << "}", " ", "{" >>,
             << "            \\draw[spine] (Y\\year.north) -- ++(0,",
                FmtCm(c.layout.spine_length), ");" >>,
             << "            \\draw[spine] (Y\\year.south) -- ++(0,-",
                FmtCm(c.layout.spine_length), ");" >>,
             << "        ", "}" >>,
             << >>,
             << "        % Connect methods to year nodes" >> >>
          \o [ i \in 1..Len(years) |-> ConnectorLine(c, order, years[i]) ]
          \o << << "    \\end", "{", "pgfonlayer", "}" >> >> )

\* Year nodes drawn for every year from start_year to end_year of the
\* default time logic, in the data or not.
GenerateYearNodesOfRange(d) ==
    LET years == SortedInts(DefaultTimeLogic.start_year
                              ..DefaultTimeLogic.end_year)
        years_str == JoinComma([ i \in 1..Len(years) |-> FmtYear(years[i]) ])
    IN  JoinLines(
          << << >>,
             << "    % ========================================" >>,
             << "    % 4. Draw year nodes on top layer" >>,
             << "    % ========================================" >>,
             << "    \\foreach \\year in ", "{" >> \o years_str
               \o << "}", " ", "{" >>,
             << "        \\node[year] at (Y\\year) ", "{", "\\year", "}", ";" >>,
             << "    ", "}" >> >> )

\* LaTeXGenerator._generate_year_nodes
GenerateYearNodes(d) ==
    LET years == SortedYears(d)
        years_str == JoinComma([ i \in 1..Len(years) |-> FmtYear(years[i]) ])
    IN  JoinLines(
          << << >>,
             << "    % ========================================" >>,
             << "    % 4. Draw year nodes on top layer" >>,
             << "    % ========================================" >>,
             << "    \\foreach \\year in ", "{" >> \o years_str
               \o << "}", " ", "{" >>,
             << "        \\node[year] at (Y\\year) ", "{", "\\year", "}", ";" >>,
             << "    ", "}" >> >> )

\* LaTeXGenerator._generate_bounding_box
GenerateBoundingBox ==
    << "\n", "    % ========================================", "\n", "    % 5. Extend bounding box", "\n", "    % ========================================", "\n",
       "    \\path (current bounding box.south west) +(-0.3,-0.5) (current bounding box.north east) +(0.3,0.5);" >>

\* legend_part of _generate_caption, with the blank that follows it
LegendPart(colors, category) ==
    << "{", "\\protect\\tikz[baseline=-0.5ex]\\protect\\node[fill=" >>
    \o colors[category] \o << ",draw=" >> \o BorderColor(colors[category])
    \o << ",rounded corners=2pt,inner sep=2pt,font=\\tiny] ", "{", category,
          "}", ";", "}", " " >>

\* The line that closes the caption: lines.append("}}")
CaptionClose == << "}", "}" >>

\* The caption with the legend in the order the categories have in the data.
GenerateCaptionFileOrder(c, colors, categories) ==
    LET sorted == categories
    IN  JoinLines(
          << << "\\end", "{", "tikzpicture", "}" >>,
             << "\\end", "{", "adjustbox", "}" >>,
             << "\\caption", "{" >> \o c.output.caption \o << FullStop >> >>
          \o ( IF c.output.show_legend
               THEN << << LegendTitle >>
                       \o Flatten([ i \in 1..Len(sorted) |->
                                      LegendPart(colors, sorted[i]) ]) >>
               ELSE << >> )
          \o << CaptionClose,
                << "\\label", "{" >> \o c.output.label \o << "}" >>,
                << "\\end", "{", "figure", "}" >> >> )

\* LaTeXGenerator._generate_caption
GenerateCaption(c, colors, categories) ==
    LET sorted == SortedCats(Range(categories))
    IN  JoinLines(
          << << "\\end", "{", "tikzpicture", "}" >>,
             << "\\end", "{", "adjustbox", "}" >>,
             << "\\caption", "{" >> \o c.output.caption \o << FullStop >> >>
          \o ( IF c.output.show_legend
               THEN << << LegendTitle >>
                       \o Flatten([ i \in 1..Len(sorted) |->
                                      LegendPart(colors, sorted[i]) ]) >>
               ELSE << >> )
          \o << CaptionClose,
                << "\\label", "{" >> \o c.output.label \o << "}" >>,
                << "\\end", "{", "figure", "}" >> >> )

\* SmartLayoutEngine.get_node_distribution on an engine that holds the year
\* order order0: the order it holds afterwards and the dictionary returned
GetNodeDistribution(time_logic, order0, d) ==
    LET years == SortedYears(d)
        order == IF order0 = << >> THEN years ELSE order0
    IN  [ year_order |-> order,
          warned |-> \E year \in YearsOf(d) :
                        DetermineSide(time_logic, order, year).warned,
          distribution |->
            [ year \in YearsOf(d) |->
                LET side  == DetermineSide(time_logic, order, year).side
                    count == Len(Group(d, year))
                IN  [ above |-> IF side = "above" THEN count ELSE 0,
                      below |-> IF side = "below" THEN count ELSE 0,
                      total |-> count ] ] ]

\* self.category_colors = self.colors.get_category_colors(categories)
StoreCategoryColors(old, colors, categories) ==
    GetCategoryColors(colors, categories)

\* generate with the year nodes drawn before the background connectors.
GenerateCallYearNodesFirst(c, d, order0, colors0) ==
    LET categories == CategoriesOf(d)
        lp     == CalculateLayout(c.layout, d)
        order  == StoreYearOrder(order0, lp.years)
        colors == StoreCategoryColors(colors0, c.colors, categories)
        ps == << GeneratePreamble(c),
                 GenerateStyles(c, colors, categories),
                 GenerateTimelineAxis(lp),
                 GenerateMethodNodes(c, d, lp, order),
                 GenerateYearNodes(d),
                 GenerateBackgroundLayer(c, d, order),
                 GenerateBoundingBox,
                 GenerateCaption(c, colors, categories) >>
    IN  [ year_order      |-> order,
          layout_params   |-> lp,
          category_colors |-> colors,
          parts           |-> ps,
          latex_code      |-> JoinLines(ps) ]

\* LaTeXGenerator.generate on a generator whose engine holds year order
\* order0 and whose colour cache holds colors0: the fields after the call,
\* the list `parts` and the string returned.
GenerateCall(c, d, order0, colors0) ==
    LET categories == CategoriesOf(d)
        lp     == CalculateLayout(c.layout, d)
        order  == StoreYearOrder(order0, lp.years)
        colors == StoreCategoryColors(colors0, c.colors, categories)
        ps == << GeneratePreamble(c),
                 GenerateStyles(c, colors, categories),
                 GenerateTimelineAxis(lp),
                 GenerateMethodNodes(c, d, lp, order),
                 GenerateBackgroundLayer(c, d, order),
                 GenerateYearNodes(d),
                 GenerateBoundingBox,
                 GenerateCaption(c, colors, categories) >>
    IN  [ year_order      |-> order,
          layout_params   |-> lp,
          category_colors |-> colors,
          parts           |-> ps,
          latex_code      |-> JoinLines(ps) ]

-----------------------------------------------------------------------------
(* Inputs.                                                                 *)

Years == { 2020, 2021, 2023 }
Categories == { "adaptive", "zeta" }

\* The rows a DataFrame given to the generator is made of.
Records ==
    { [ year |-> y, category |-> cat, name |-> "M", ref |-> "R" ] :
        y \in Years, cat \in Categories }

\* The rows of a DataFrame given to the layout engine, which reads only the
\* year column.
EngineRecords == { r \in Records : r.category = "adaptive" }

\* The non-empty DataFrames of at most n rows over the rows R.
DataFrames(R, n) == UNION { [ 1..k -> R ] : k \in 1..n }

EngineFrames == DataFrames(EngineRecords, MaxRows)

\* The years determine_side is asked about: those of the data and two more.
QueryYears == Years \cup { 2025, 2030 }

WithRule(c, rule) == [ c EXCEPT !.time_logic.upper_years = rule ]

\* The configurations a generator is constructed with.
GenConfigs ==
    { [ WithRule(DefaultConfig, rule) EXCEPT !.output.show_legend = legend ] :
        rule \in { RuleOrder, RuleOddCaps, RuleBadToken }, legend \in BOOLEAN }
    \cup { [ DefaultConfig EXCEPT !.visual.max_lines = 2 ] }

\* The layout configurations an engine is constructed with.
LayoutConfigs ==
    { [ DefaultConfig EXCEPT !.layout =
          [ DefaultLayout EXCEPT !.smart_spacing = smart,
                                 !.year_spacing = spacing,
                                 !.min_year_spacing = minimum,
                                 !.branch_distance = branch ] ] :
        smart \in BOOLEAN, spacing \in { 0, 27, 60 }, minimum \in { 20, 30 },
        branch \in { 10, 15 } }

\* The time-logic configurations an engine is constructed with.
SideConfigs ==
    { WithRule(DefaultConfig, rule) :
        rule \in { RuleOrder, RuleSequence, RuleIndex, RuleOdd, RuleOddCaps,
                   RuleEven, RuleList, RuleListOne, RuleBadToken, RuleBadWord,
                   RuleEmpty } }

NoLayout == [ years |-> << >> ]

\* The DataFrames _generate_method_nodes is given: rows of two years and
\* two categories, every row with a method name of its own.
NodeFrames ==
    { [ i \in 1..k |-> [ year |-> ys[i], category |-> cats[i],
                          name |-> "M" \o ToString(i), ref |-> "R" ] ] :
        k \in 1..MaxNodeRows,
        ys \in [ 1..MaxNodeRows -> { 2020, 2021 } ],
        cats \in [ 1..MaxNodeRows -> { "adaptive", "zeta" } ] }

\* The configurations the generator of that call is built with.
NodeConfigs ==
    { DefaultConfig, [ DefaultConfig EXCEPT !.visual.max_lines = 2 ] }

\* The seven categories get_category_colors knows, as a list.
SevenKnown ==
    << "singleproto", "multiproto", "adaptive", "vl", "dense", "attention",
       "hybrid" >>

\* The lists of categories get_category_colors is given: nothing, the
\* seven known categories or twenty unknown ones, followed by at most
\* MaxCategories of four categories in any order, repeats included.
CategoryLists ==
    { block \o tail :
        block \in { << >>, SevenKnown, Fillers },
        tail \in UNION { [ 1..k -> { "adaptive", "vl", "cnn", "zeta" } ] :
                           k \in 0..MaxCategories } }

\* The colour configurations: the default one, and one with two of the
\* legacy colour fields set.
ColorConfigs ==
    { DefaultColors,
      [ DefaultColors EXCEPT !.color_adaptive = << "blue" >>,
                             !.color_hybrid = << "teal", "!", "50" >> ] }

-----------------------------------------------------------------------------
(* The generator and its engine as a state machine.                        *)

\* LaTeXGenerator.__init__ / SmartLayoutEngine.__init__ with configuration c
Construct(c) ==
    /\ cfg = c
    /\ df = << >>
    /\ arg = << >>
    /\ year_order = << >>
    /\ layout_params = NoLayout
    /\ category_colors = << >>
    /\ parts = << >>
    /\ out = << >>
    /\ order_before = << >>
    /\ side_query = 0
    /\ side_result = "none"
    /\ warned = FALSE
    /\ last_op = "init"

\* No direct call is made and nothing runs concurrently.
NoCall == call = << >> /\ result = << >> /\ threads = << >>

Init == \E c \in GenConfigs : Construct(c) /\ NoCall

\* The caller adds a row to its DataFrame.
AppendRecord(r) ==
    /\ Len(df) < MaxRecords
    /\ df' = Append(df, r)
    /\ last_op' = "append"
    /\ UNCHANGED << cfg, arg, year_order, layout_params, category_colors,
                    parts, out, order_before, side_query, side_result, warned,
                    call, result, threads >>

\* generator.generate(df)
Generate ==
    /\ df # << >>
    /\ \E r \in { GenerateCall(cfg, df, year_order, category_colors) } :
           /\ arg' = df
           /\ order_before' = year_order
           /\ year_order' = r.year_order
           /\ layout_params' = r.layout_params
           /\ category_colors' = r.category_colors
           /\ parts' = r.parts
           /\ out' = r.latex_code
           /\ last_op' = "generate"
    /\ UNCHANGED << cfg, df, side_query, side_result, warned,
                    call, result, threads >>

\* engine.calculate_layout(d)
CalculateLayoutOp(d) ==
    /\ arg' = d
    /\ layout_params' = CalculateLayout(cfg.layout, d)
    /\ year_order' = StoreYearOrder(year_order, layout_params'.years)
    /\ last_op' = "calculate_layout"
    /\ UNCHANGED << cfg, df, category_colors, parts, out, order_before,
                    side_query, side_result, warned, call, result, threads >>

\* engine.determine_side(y)
DetermineSideOp(y) ==
    /\ \E r \in { DetermineSide(cfg.time_logic, year_order, y) } :
           /\ side_query' = y
           /\ side_result' = r.side
           /\ warned' = r.warned
    /\ last_op' = "determine_side"
    /\ UNCHANGED << cfg, df, arg, year_order, layout_params, category_colors,
                    parts, out, order_before, call, result, threads >>

\* The variables of the generator and its engine.
generatorVars ==
    << cfg, df, arg, year_order, layout_params, category_colors, parts, out,
       order_before, side_query, side_result, warned >>

\* The state before a direct call of a function with the arguments a, on
\* objects built with configuration c.
Given(c, a) ==
    /\ Construct(c)
    /\ call = a
    /\ result = << >>
    /\ threads = << >>

\* generator._generate_method_nodes(df, layout_params), called directly
\* with the layout the engine computed for df
GenerateMethodNodesOp ==
    /\ last_op = "calculate_layout"
    /\ arg = call.df
    /\ result' = GenerateMethodNodes(cfg, call.df, layout_params, year_order)
    /\ last_op' = "generate_method_nodes"
    /\ UNCHANGED << cfg, df, arg, year_order, layout_params, category_colors,
                    parts, out, order_before, side_query, side_result, warned,
                    call, threads >>

\* colors.get_category_colors(categories), called directly
GetCategoryColorsOp ==
    /\ result' = GetCategoryColors(call.colors, call.categories)
    /\ last_op' = "get_category_colors"
    /\ UNCHANGED << generatorVars, call, threads >>

Next ==
    \/ \E r \in Records : AppendRecord(r)
    \/ Generate

Spec == Init /\ [][Next]_vars

InitLayout == \E c \in LayoutConfigs : Construct(c) /\ NoCall

NextLayout == \E d \in EngineFrames : CalculateLayoutOp(d)

SpecLayout == InitLayout /\ [][NextLayout]_vars

InitSide == \E c \in SideConfigs : Construct(c) /\ NoCall

NextSide ==
    \/ \E d \in EngineFrames : CalculateLayoutOp(d)
    \/ \E y \in QueryYears : DetermineSideOp(y)

SpecSide == InitSide /\ [][NextSide]_vars

\* engine.get_node_distribution(d)
GetNodeDistributionOp(d) ==
    /\ \E r \in { GetNodeDistribution(cfg.time_logic, year_order, d) } :
           /\ year_order' = r.year_order
           /\ warned' = r.warned
           /\ result' = r.distribution
    /\ arg' = d
    /\ order_before' = year_order
    /\ last_op' = "get_node_distribution"
    /\ UNCHANGED << cfg, df, layout_params, category_colors, parts, out,
                    side_query, side_result, call, threads >>

\* The time-logic configurations of the engines asked for a distribution.
DistributionConfigs ==
    { WithRule(DefaultConfig, rule) :
        rule \in { RuleOrder, RuleOdd, RuleBadToken } }

\* An engine, and the two DataFrames it is called with: first with one,
\* then with the other.
InitDistribution ==
    \E c \in DistributionConfigs, d1 \in EngineFrames, d2 \in EngineFrames :
        Given(c, [ first |-> d1, df |-> d2 ])

NextDistribution ==
    \/ CalculateLayoutOp(call.first)
    \/ GetNodeDistributionOp(call.first)
    \/ GetNodeDistributionOp(call.df)

SpecDistribution == InitDistribution /\ [][NextDistribution]_vars

InitColors ==
    \E colors \in ColorConfigs, categories \in CategoryLists :
        Given(DefaultConfig, [ colors |-> colors, categories |-> categories ])

NextColors == GetCategoryColorsOp

SpecColors == InitColors /\ [][NextColors]_vars

InitNodes == \E c \in NodeConfigs, d \in NodeFrames : Given(c, [ df |-> d ])

NextNodes ==
    \/ CalculateLayoutOp(call.df)
    \/ GenerateMethodNodesOp

SpecNodes == InitNodes /\ [][NextNodes]_vars

-----------------------------------------------------------------------------
(* Two generators running generate at the same time.                       *)

\* The two generator instances, each built by its own thread.
Instances == { 1, 2 }

\* Both generators holding the engine the first one built.
EngineOfFirst(i) == 1

\* self.layout_engine = SmartLayoutEngine(layout, time_logic): generator i
\* holds the engine it built itself.
EngineOf(i) == i

\* The configurations and the DataFrames the two threads build their own
\* generators and data from.
ThreadConfigs ==
    { DefaultConfig, [ DefaultConfig EXCEPT !.output.show_legend = FALSE ] }

ThreadFrames ==
    { << [ year |-> 2020, category |-> "adaptive", name |-> "M", ref |-> "R" ],
         [ year |-> 2021, category |-> "zeta", name |-> "M", ref |-> "R" ] >>,
      << [ year |-> 2021, category |-> "cnn", name |-> "M", ref |-> "R" ] >>,
      << [ year |-> 2023, category |-> "adaptive", name |-> "M", ref |-> "R" ],
         [ year |-> 2020, category |-> "zeta", name |-> "M", ref |-> "R" ],
         [ year |-> 2023, category |-> "zeta", name |-> "M", ref |-> "R" ] >> }

\* A thread that is about to call generate(d) on the generator instance
\* self, which was built with configuration c: the locals of the call.
NewCall(self, c, d) ==
    [ self |-> self, cfg |-> c, df |-> d, pc |-> "categories",
      categories |-> << >>, layout_params |-> NoLayout,
      parts |-> << >>, out |-> << >> ]

\* Call i is inside generate.
Running(i) == threads.gen[i].pc \notin { "categories", "done", "failed" }

\* The other call.
Other(i) == CHOOSE j \in Instances : j # i

\* A step of call i, which takes it to g and leaves the year orders of the
\* engines as engine and the category_colors of the generators as colors.
ThreadStep(i, g, engine, colors, op) ==
    /\ threads' = [ gen     |-> [ threads.gen EXCEPT ![i] = g ],
                    engine  |-> engine,
                    colors  |-> colors,
                    overlap |-> threads.overlap \/ Running(Other(i)) ]
    /\ last_op' = op
    /\ UNCHANGED << generatorVars, call, result >>

\* generate in thread i: categories = df["种类"].unique().tolist()
ThreadCategories(i) ==
    LET g == threads.gen[i] IN
    /\ g.pc = "categories"
    /\ ThreadStep(i, [ g EXCEPT !.categories = CategoriesOf(g.df),
                                !.pc = "calculate_layout" ],
                  threads.engine, threads.colors, "categories")

\* generate in thread i: self.layout_engine.calculate_layout(df)
ThreadCalculateLayout(i) ==
    LET g  == threads.gen[i]
        lp == CalculateLayout(g.cfg.layout, g.df)
    IN  /\ g.pc = "calculate_layout"
        /\ ThreadStep(i, [ g EXCEPT !.layout_params = lp, !.pc = "parts" ],
                      [ threads.engine EXCEPT ![EngineOf(g.self)] =
                          StoreYearOrder(@, lp.years) ],
                      threads.colors, "calculate_layout")

\* self.category_colors[category] raises KeyError for a category of the
\* call: the legend is shown and the mapping lacks the category.
LegendKeyError(g, colors) ==
    /\ g.cfg.output.show_legend
    /\ \E i \in 1..Len(g.categories) : g.categories[i] \notin DOMAIN colors

\* generate in thread i: the next element of the list parts; the call
\* fails when _generate_caption raises KeyError
ThreadSection(i) ==
    LET g      == threads.gen[i]
        k      == Len(g.parts) + 1
        order  == threads.engine[EngineOf(g.self)]
        colors == IF k = 2
                  THEN StoreCategoryColors(threads.colors[g.self],
                                           g.cfg.colors, g.categories)
                  ELSE threads.colors[g.self]
        part   == CASE k = 1 -> GeneratePreamble(g.cfg)
                    [] k = 2 -> GenerateStyles(g.cfg, colors, g.categories)
                    [] k = 3 -> GenerateTimelineAxis(g.layout_params)
                    [] k = 4 -> GenerateMethodNodes(g.cfg, g.df,
                                                    g.layout_params, order)
                    [] k = 5 -> GenerateBackgroundLayer(g.cfg, g.df, order)
                    [] k = 6 -> GenerateYearNodes(g.df)
                    [] k = 7 -> GenerateBoundingBox
                    [] k = 8 -> GenerateCaption(g.cfg, colors, g.categories)
    IN  /\ g.pc = "parts"
        /\ IF k = 8 /\ LegendKeyError(g, colors)
           THEN ThreadStep(i, [ g EXCEPT !.pc = "failed" ],
                           threads.engine, threads.colors, "section")
           ELSE ThreadStep(i, [ g EXCEPT !.parts = Append(@, part),
                                         !.pc = IF k = 8 THEN "join"
                                                ELSE "parts" ],
                           threads.engine,
                           [ threads.colors EXCEPT ![g.self] = colors ],
                           "section")

\* generate in thread i: latex_code = "\n".join(parts); return latex_code
ThreadJoin(i) ==
    LET g == threads.gen[i] IN
    /\ g.pc = "join"
    /\ ThreadStep(i, [ g EXCEPT !.out = JoinLines(g.parts), !.pc = "done" ],
                  threads.engine, threads.colors, "join")

\* Two generators built, each with its engine, and the calls c1 and c2
\* about to start.
TwoCalls(c1, c2) ==
    /\ Construct(DefaultConfig)
    /\ call = << >>
    /\ result = << >>
    /\ threads = [ gen     |-> << c1, c2 >>,
                   engine  |-> << << >>, << >> >>,
                   colors  |-> << << >>, << >> >>,
                   overlap |-> FALSE ]

InitThreads ==
    \E c1 \in ThreadConfigs, c2 \in ThreadConfigs,
       d1 \in ThreadFrames, d2 \in ThreadFrames :
        TwoCalls(NewCall(1, c1, d1), NewCall(2, c2, d2))

NextThreads ==
    \E i \in Instances :
        \/ ThreadCategories(i)
        \/ ThreadCalculateLayout(i)
        \/ ThreadSection(i)
        \/ ThreadJoin(i)

SpecThreads == InitThreads /\ [][NextThreads]_vars

\* Both calls made on the first generator.
InitShared ==
    \E c \in ThreadConfigs, d1 \in ThreadFrames, d2 \in ThreadFrames :
        TwoCalls(NewCall(1, c, d1), NewCall(1, c, d2))

NextShared == NextThreads

SpecShared == InitShared /\ [][NextShared]_vars

-----------------------------------------------------------------------------
(* Merging two configurations: TimelineFishboneConfig.merge.               *)

\* TimelineFishboneConfig.to_dict: one dictionary per section, holding
\* every field of the section's dataclass (asdict), set by the caller or not.
ToDict(c) ==
    [ section \in DOMAIN c |-> [ f \in DOMAIN c[section] |-> c[section][f] ] ]

\* d.update(values)
Update(d, values) ==
    [ k \in DOMAIN d \cup DOMAIN values |->
        IF k \in DOMAIN values THEN values[k] ELSE d[k] ]

\* A section's from_dict: cls(**{k: v for k, v in data.items()
\* if k in cls.__annotations__}), the fields data lacks taking their defaults.
SectionFromDict(defaults, data) ==
    [ k \in DOMAIN defaults |->
        IF k \in DOMAIN data THEN data[k] ELSE defaults[k] ]

\* TimelineFishboneConfig.from_dict
FromDict(data) ==
    [ section \in DOMAIN DefaultConfig |->
        SectionFromDict(DefaultConfig[section],
                        IF section \in DOMAIN data THEN data[section]
                        ELSE << >>) ]

\* TimelineFishboneConfig.merge
Merge(base, other) ==
    LET merged_dict == ToDict(base)
        other_dict  == ToDict(other)
    IN  FromDict([ section \in DOMAIN merged_dict |->
                     IF section \in DOMAIN other_dict
                     THEN Update(merged_dict[section], other_dict[section])
                     ELSE merged_dict[section] ])

\* What a caller assigns to a fresh TimelineFishboneConfig(): for each of
\* three fields nothing, or one value, which may be the field's default.
Assignments ==
    [ year_spacing  : { << >>, << 27 >>, << 30 >> },
      smart_spacing : { << >>, << FALSE >>, << TRUE >> },
      max_lines     : { << >>, << 1 >>, << 2 >> } ]

\* config = TimelineFishboneConfig() followed by the assignments a
Configured(a) ==
    [ DefaultConfig EXCEPT
        !.layout.year_spacing =
            IF a.year_spacing = << >> THEN @ ELSE a.year_spacing[1],
        !.layout.smart_spacing =
            IF a.smart_spacing = << >> THEN @ ELSE a.smart_spacing[1],
        !.visual.max_lines =
            IF a.max_lines = << >> THEN @ ELSE a.max_lines[1] ]

\* The fields the assignments a set, as pairs of section and field.
ExplicitlySet(a) ==
    { p \in { << "layout", "year_spacing" >>, << "layout", "smart_spacing" >>,
              << "visual", "max_lines" >> } :
        a[p[2]] # << >> }

\* base.merge(other), called directly
MergeOp ==
    /\ last_op = "init"
    /\ result' = Merge(call.base, call.other)
    /\ last_op' = "merge"
    /\ UNCHANGED << generatorVars, call, threads >>

InitMerge ==
    \E a \in Assignments, b \in Assignments :
        Given(DefaultConfig, [ base |-> Configured(a),
                               other |-> Configured(b),
                               set |-> ExplicitlySet(b) ])

NextMerge == MergeOp

SpecMerge == InitMerge /\ [][NextMerge]_vars

-----------------------------------------------------------------------------
(* Validating a DataFrame: DataValidator.                                  *)
(* A frame is its set of columns and its rows.  A year cell is a number, a *)
(* text that is no number, or null; a category or name cell is << >> for   *)
(* null and << text >> otherwise.                                          *)

\* DataValidator.REQUIRED_COLUMNS
REQUIRED_COLUMNS == << "year", "category", "name", "ref" >>

\* df.empty: no rows or no columns
IsEmpty(frame) == frame.rows = << >> \/ frame.columns = { }

\* The cell of a row in a column is null.
IsNull(row, col) ==
    IF col = "year" THEN row.year.kind = "null" ELSE row[col] = << >>

\* DataValidator.validate_columns: the error it raises, or "none"
ValidateColumns(frame) ==
    LET missing_cols ==
            SelectSeq(REQUIRED_COLUMNS, LAMBDA col : col \notin frame.columns)
    IN  IF missing_cols # << >> THEN "missing_columns" ELSE "none"

\* DataValidator.validate_null_values
ValidateNullValues(frame) ==
    IF \E i \in 1..Len(frame.rows) :
           \E col \in Range(REQUIRED_COLUMNS) : IsNull(frame.rows[i], col)
    THEN "null_values" ELSE "none"

\* DataValidator.validate_categories: only an empty set of categories is
\* an error.
ValidateCategories(frame) ==
    LET categories ==
            { frame.rows[i].category : i \in 1..Len(frame.rows) } \ { << >> }
    IN  IF categories = { } THEN "no_categories" ELSE "none"

\* pd.to_numeric(cell, errors='coerce') is NaN
NotNumeric(cell) == cell.kind # "int"

\* DataValidator.validate_years: the error it raises, and whether it warns
\* about a year before 1900 or after 2100.
ValidateYears(frame) ==
    LET cells == [ i \in 1..Len(frame.rows) |-> frame.rows[i].year ] IN
    IF \E i \in DOMAIN cells : NotNumeric(cells[i])
    THEN [ raised |-> "invalid_years", warned |-> FALSE ]
    ELSE [ raised |-> "none",
           warned |-> \E i \in DOMAIN cells :
                          cells[i].value < 1900 \/ cells[i].value > 2100 ]

\* validate_dataframe with the years checked before the null values.
ValidateDataframeYearsFirst(frame) ==
    IF IsEmpty(frame) THEN [ raised |-> "empty", warned |-> FALSE ]
    ELSE IF ValidateColumns(frame) # "none"
    THEN [ raised |-> ValidateColumns(frame), warned |-> FALSE ]
    ELSE IF ValidateYears(frame).raised # "none"
    THEN ValidateYears(frame)
    ELSE IF ValidateNullValues(frame) # "none"
    THEN [ raised |-> ValidateNullValues(frame), warned |-> FALSE ]
    ELSE IF ValidateCategories(frame) # "none"
    THEN [ raised |-> ValidateCategories(frame), warned |-> FALSE ]
    ELSE ValidateYears(frame)

\* DataValidator.validate_dataframe: the first error raised, or "none"
ValidateDataframe(frame) ==
    IF IsEmpty(frame) THEN [ raised |-> "empty", warned |-> FALSE ]
    ELSE IF ValidateColumns(frame) # "none"
    THEN [ raised |-> ValidateColumns(frame), warned |-> FALSE ]
    ELSE IF ValidateNullValues(frame) # "none"
    THEN [ raised |-> ValidateNullValues(frame), warned |-> FALSE ]
    ELSE IF ValidateCategories(frame) # "none"
    THEN [ raised |-> ValidateCategories(frame), warned |-> FALSE ]
    ELSE ValidateYears(frame)

\* The rows of the frames given to the validator.
ValidatedRows ==
    [ year     : { [ kind |-> "int", value |-> 2020 ],
                   [ kind |-> "int", value |-> 1800 ],
                   [ kind |-> "text", value |-> 0 ],
                   [ kind |-> "null", value |-> 0 ] },
      category : { << >>, << "adaptive" >>, << "invalid_type" >> },
      name     : { << >>, << "M" >> },
      ref      : { << "R" >> } ]

\* The frames given to the validator: every required column or all but
\* one, and at most MaxValidatedRows rows.
ValidatedFrames ==
    { [ columns |-> cols, rows |-> rows ] :
        cols \in { Range(REQUIRED_COLUMNS),
                   Range(REQUIRED_COLUMNS) \ { "category" },
                   Range(REQUIRED_COLUMNS) \ { "ref" } },
        rows \in UNION { [ 1..k -> ValidatedRows ] :
                           k \in 0..MaxValidatedRows } }

\* DataValidator.validate_dataframe(df), called directly
ValidateDataframeOp ==
    /\ last_op = "init"
    /\ result' = ValidateDataframe(call.df)
    /\ last_op' = "validate_dataframe"
    /\ UNCHANGED << generatorVars, call, threads >>

InitValidate == \E d \in ValidatedFrames : Given(DefaultConfig, [ df |-> d ])

NextValidate == ValidateDataframeOp

SpecValidate == InitValidate /\ [][NextValidate]_vars

-----------------------------------------------------------------------------
(* Loading a data file: DataValidator.load_and_validate, validate_file.    *)
(* A file is whether its path exists, the suffix of its path, and what     *)
(* pandas makes of its bytes: a frame or an error.                         *)

SuffixCsv  == << ".", "c", "s", "v" >>
SuffixJson == << ".", "j", "s", "o", "n" >>

\* The rows of the frames read from a file.
FileRows ==
    [ year     : { [ kind |-> "int", value |-> 2020 ],
                   [ kind |-> "int", value |-> 2021 ],
                   [ kind |-> "text", value |-> 0 ] },
      category : { << >>, << "adaptive" >>, << "zeta" >> },
      name     : { << "M" >> },
      ref      : { << "R" >> } ]

\* What reading a file gives: pd.errors.EmptyDataError, pd.errors.ParserError,
\* another exception, or a frame of at most MaxValidatedRows rows with the
\* four columns or without one of them.
FileReads ==
    { [ error |-> e, frame |-> [ columns |-> { }, rows |-> << >> ] ] :
        e \in { "EmptyDataError", "ParserError", "UnicodeDecodeError" } }
    \cup
    { [ error |-> "none", frame |-> [ columns |-> cols, rows |-> rows ] ] :
        cols \in { Range(REQUIRED_COLUMNS),
                   Range(REQUIRED_COLUMNS) \ { "name" } },
        rows \in UNION { [ 1..k -> FileRows ] : k \in 0..MaxValidatedRows } }

\* The suffixes of the paths: .csv, .CSV, .json, .txt and none.
Suffixes ==
    { SuffixCsv, << ".", "C", "S", "V" >>, SuffixJson,
      << ".", "t", "x", "t" >>, << >> }

\* df['year'] = df['year'].astype(int), on a validated frame: the
\* DataFrame the generator is given.
AsIntYears(frame) ==
    [ i \in 1..Len(frame.rows) |->
        [ year     |-> frame.rows[i].year.value,
          category |-> frame.rows[i].category[1],
          name     |-> frame.rows[i].name[1],
          ref      |-> frame.rows[i].ref[1] ] ]

\* The try block of load_and_validate: the exception raised in it, if any.
ReadFile(file) ==
    IF Lower(file.suffix) = SuffixCsv \/ Lower(file.suffix) = SuffixJson
    THEN file.read.error
    ELSE "ValueError"

\* load_and_validate with the suffix looked at before the path.
LoadAndValidateSuffixFirst(file) ==
    IF ReadFile(file) = "ValueError"
    THEN [ raised |-> "ValidationError", error |-> "read_failed", df |-> << >> ]
    ELSE IF ~file.exists
    THEN [ raised |-> "FileNotFoundError", error |-> "file_not_found",
           df |-> << >> ]
    ELSE IF ReadFile(file) # "none"
    THEN [ raised |-> "ValidationError", error |-> "read_failed", df |-> << >> ]
    ELSE LET v == ValidateDataframe(file.read.frame) IN
         IF v.raised # "none"
         THEN [ raised |-> "ValidationError", error |-> v.raised, df |-> << >> ]
         ELSE [ raised |-> "none", error |-> "none",
                df |-> AsIntYears(file.read.frame) ]

\* DataValidator.load_and_validate: the exception it raises and what its
\* message is about, or the DataFrame it returns
LoadAndValidate(file) ==
    IF ~file.exists
    THEN [ raised |-> "FileNotFoundError", error |-> "file_not_found",
           df |-> << >> ]
    ELSE IF ReadFile(file) = "EmptyDataError"
    THEN [ raised |-> "ValidationError", error |-> "empty_file", df |-> << >> ]
    ELSE IF ReadFile(file) = "ParserError"
    THEN [ raised |-> "ValidationError", error |-> "parse_failed",
           df |-> << >> ]
    ELSE IF ReadFile(file) # "none"
    THEN [ raised |-> "ValidationError", error |-> "read_failed", df |-> << >> ]
    ELSE LET v == ValidateDataframe(file.read.frame) IN
         IF v.raised # "none"
         THEN [ raised |-> "ValidationError", error |-> v.raised, df |-> << >> ]
         ELSE [ raised |-> "none", error |-> "none",
                df |-> AsIntYears(file.read.frame) ]

\* validate_file: (is_valid, error_message), and the exception that leaves
\* it (none: except Exception catches every one load_and_validate raises)
ValidateFile(file) ==
    LET r == LoadAndValidate(file) IN
    IF r.raised = "none"
    THEN [ raised |-> "none", is_valid |-> TRUE, error |-> "None" ]
    ELSE [ raised |-> "none", is_valid |-> FALSE, error |-> r.error ]

\* DataValidator.load_and_validate(file_path), called directly
LoadAndValidateOp ==
    /\ last_op = "init"
    /\ result' = LoadAndValidate(call.file)
    /\ last_op' = "load_and_validate"
    /\ UNCHANGED << generatorVars, call, threads >>

\* validate_file(file_path), called directly
ValidateFileOp ==
    /\ last_op = "init"
    /\ result' = ValidateFile(call.file)
    /\ last_op' = "validate_file"
    /\ UNCHANGED << generatorVars, call, threads >>

InitFiles ==
    \E exists \in BOOLEAN, suffix \in Suffixes, read \in FileReads :
        Given(DefaultConfig,
              [ file |-> [ exists |-> exists, suffix |-> suffix,
                           read |-> read ] ])

NextFiles == LoadAndValidateOp \/ ValidateFileOp

SpecFiles == InitFiles /\ [][NextFiles]_vars

-----------------------------------------------------------------------------
(* Loading the configuration and generating to a file: load_config,        *)
(* generate_timeline.                                                      *)

\* The dictionaries read from the configuration files: one that sets
\* fields of the layout section, one that sets fields of two other
\* sections, and one with no section the configuration knows.
ConfigDatas ==
    << [ layout |-> [ year_spacing |-> 30, smart_spacing |-> TRUE ] ],
       [ visual |-> [ max_lines |-> 2 ],
         output |-> [ show_legend |-> FALSE ] ],
       [ notes |-> [ author |-> "A" ] ] >>

SuffixYaml == << ".", "y", "a", "m", "l" >>
SuffixYml  == << ".", "y", "m", "l" >>

\* The config_file arguments: none, or a path with its suffix, whether it
\* exists, and the dictionary its text holds.
ConfigFiles ==
    { [ given |-> FALSE, exists |-> FALSE, suffix |-> << >>, data |-> 3 ] }
    \cup [ given : { TRUE }, exists : BOOLEAN,
           suffix : { SuffixJson, SuffixYaml, << ".", "t", "x", "t" >> },
           data : DOMAIN ConfigDatas ]

RECURSIVE ApplyOverrides(_, _)
\* load_config: the loop over overrides, each a key section__param and its
\* value, set with setattr when the section and the parameter exist
ApplyOverrides(config, overrides) ==
    IF overrides = << >> THEN config
    ELSE LET o == Head(overrides)
             c == IF o.section \in DOMAIN config
                     /\ o.param \in DOMAIN config[o.section]
                  THEN [ config EXCEPT ![o.section][o.param] = o.value ]
                  ELSE config
         IN  ApplyOverrides(c, Tail(overrides))

\* load_config(config_file, **overrides), PyYAML being installed or not:
\* the exception raised, or the configuration returned
LoadConfig(config_file, overrides, yaml_available) ==
    LET loaded == FromDict(ConfigDatas[config_file.data])
        fail(e) == [ raised |-> e, config |-> DefaultConfig ]
    IN  IF ~config_file.given
        THEN [ raised |-> "none",
               config |-> ApplyOverrides(DefaultConfig, overrides) ]
        ELSE IF config_file.suffix \in { SuffixYaml, SuffixYml }
        THEN IF ~yaml_available THEN fail("ImportError")
             ELSE IF ~config_file.exists THEN fail("FileNotFoundError")
             ELSE [ raised |-> "none",
                    config |-> ApplyOverrides(loaded, overrides) ]
        ELSE IF config_file.suffix = SuffixJson
        THEN IF ~config_file.exists THEN fail("FileNotFoundError")
             ELSE [ raised |-> "none",
                    config |-> ApplyOverrides(loaded, overrides) ]
        ELSE fail("ValueError")

\* A file of the file system: whether it exists and the text it holds.
NoFile  == [ exists |-> FALSE, text |-> << >> ]
OldFile == [ exists |-> TRUE, text |-> << "old" >> ]

\* generate_timeline: config.output.input_file = str(input_file), and
\* config.output.output_file = str(output_file) when an output file is given
WithPaths(config, a) ==
    [ config EXCEPT !.output.input_file = a.input_path,
                    !.output.output_file =
                        IF a.output_path # "" THEN a.output_path ELSE @ ]

\* generate_timeline with the output file opened for writing before the
\* data are loaded.
GenerateTimelineOpenFirst(a) ==
    LET lc == LoadConfig(a.config_file, a.overrides, a.yaml_available)
        ld == LoadAndValidate(a.input_file)
        config == WithPaths(lc.config, a)
        opened == IF a.output_path # "" THEN [ exists |-> TRUE, text |-> << >> ]
                  ELSE a.output
    IN  IF lc.raised # "none"
        THEN [ raised |-> lc.raised, latex_code |-> << >>, output |-> a.output ]
        ELSE IF ld.raised # "none"
        THEN [ raised |-> ld.raised, latex_code |-> << >>, output |-> opened ]
        ELSE LET latex_code ==
                     GenerateCall(config, ld.df, << >>, << >>).latex_code
             IN  [ raised |-> "none", latex_code |-> latex_code,
                   output |-> IF a.output_path # ""
                              THEN [ exists |-> TRUE, text |-> latex_code ]
                              ELSE a.output ]

\* generate_timeline(input_file, output_file, config_file, **kwargs): the
\* exception raised or the string returned, and the output file afterwards
GenerateTimeline(a) ==
    LET lc == LoadConfig(a.config_file, a.overrides, a.yaml_available)
        ld == LoadAndValidate(a.input_file)
        config == WithPaths(lc.config, a)
    IN  IF lc.raised # "none"
        THEN [ raised |-> lc.raised, latex_code |-> << >>, output |-> a.output ]
        ELSE IF ld.raised # "none"
        THEN [ raised |-> ld.raised, latex_code |-> << >>, output |-> a.output ]
        ELSE LET latex_code ==
                     GenerateCall(config, ld.df, << >>, << >>).latex_code
             IN  [ raised |-> "none", latex_code |-> latex_code,
                   output |-> IF a.output_path # ""
                              THEN [ exists |-> TRUE, text |-> latex_code ]
                              ELSE a.output ]

\* generate_timeline(...), called directly
GenerateTimelineOp ==
    /\ last_op = "init"
    /\ result' = GenerateTimeline(call)
    /\ last_op' = "generate_timeline"
    /\ UNCHANGED << generatorVars, call, threads >>

\* The calls of generate_timeline: a .csv input path, an output path or
\* none, a configuration file or none, no overrides; the output file is
\* absent or holds an earlier text.
InitTimeline ==
    \E exists \in BOOLEAN, read \in FileReads, output_path \in { "", "out.tex" },
       output \in { NoFile, OldFile }, config_file \in ConfigFiles,
       yaml_available \in BOOLEAN :
        Given(DefaultConfig,
              [ input_path |-> "data.csv",
                input_file |-> [ exists |-> exists, suffix |-> SuffixCsv,
                                 read |-> read ],
                output_path |-> output_path,
                output |-> output,
                config_file |-> config_file,
                overrides |-> << >>,
                yaml_available |-> yaml_available ])

NextTimeline == GenerateTimelineOp

SpecTimeline == InitTimeline /\ [][NextTimeline]_vars

-----------------------------------------------------------------------------
(* The command line: cli.py.                                               *)

\* The options of create_parser that args_to_config_overrides reads, in its
\* order: the section and parameter each one overrides and the kind of its
\* value.  The default of each is the default of the configuration field.
CliOptions ==
    << [ section |-> "layout", param |-> "timeline_width", kind |-> "str" ],
       [ section |-> "layout", param |-> "year_spacing", kind |-> "number" ],
       [ section |-> "layout", param |-> "branch_distance", kind |-> "number" ],
       [ section |-> "layout", param |-> "spine_length", kind |-> "number" ],
       [ section |-> "layout", param |-> "smart_spacing", kind |-> "flag" ],
       [ section |-> "layout", param |-> "min_year_spacing", kind |-> "number" ],
       [ section |-> "time_logic", param |-> "time_direction", kind |-> "str" ],
       [ section |-> "time_logic", param |-> "start_year", kind |-> "number" ],
       [ section |-> "time_logic", param |-> "end_year", kind |-> "number" ],
       [ section |-> "time_logic", param |-> "upper_years", kind |-> "text" ],
       [ section |-> "time_logic", param |-> "lower_years", kind |-> "str" ],
       [ section |-> "visual", param |-> "node_width", kind |-> "text" ],
       [ section |-> "visual", param |-> "node_height", kind |-> "text" ],
       [ section |-> "visual", param |-> "node_font", kind |-> "text" ],
       [ section |-> "visual", param |-> "ref_font", kind |-> "text" ],
       [ section |-> "visual", param |-> "inner_sep", kind |-> "text" ],
       [ section |-> "visual", param |-> "line_width", kind |-> "text" ],
       [ section |-> "visual", param |-> "rounded_corners", kind |-> "text" ],
       [ section |-> "visual", param |-> "max_lines", kind |-> "number" ],
       [ section |-> "colors", param |-> "color_single", kind |-> "text" ],
       [ section |-> "colors", param |-> "color_multi", kind |-> "text" ],
       [ section |-> "colors", param |-> "color_adaptive", kind |-> "text" ],
       [ section |-> "colors", param |-> "color_vl", kind |-> "text" ],
       [ section |-> "colors", param |-> "color_dense", kind |-> "text" ],
       [ section |-> "colors", param |-> "color_attention", kind |-> "text" ],
       [ section |-> "colors", param |-> "color_hybrid", kind |-> "text" ],
       [ section |-> "colors", param |-> "axis_color", kind |-> "text" ],
       [ section |-> "colors", param |-> "conn_color", kind |-> "text" ],
       [ section |-> "arrows", param |-> "arrow_style", kind |-> "text" ],
       [ section |-> "arrows", param |-> "arrow_color", kind |-> "text" ],
       [ section |-> "arrows", param |-> "arrow_shorten", kind |-> "text" ],
       [ section |-> "output", param |-> "show_legend", kind |-> "always" ],
       [ section |-> "output", param |-> "caption", kind |-> "text" ],
       [ section |-> "output", param |-> "label", kind |-> "text" ],
       [ section |-> "output", param |-> "adjustbox_width", kind |-> "text" ] >>

\* What the user passes on the command line besides -i, -o and -c:
\* --year-spacing and --max-lines with a value or not at all, and the flags
\* --smart-spacing and --hide-legend.
CommandLines ==
    [ year_spacing  : { << >>, << 0 >>, << 45 >> },
      max_lines     : { << >>, << 2 >> },
      smart_spacing : BOOLEAN,
      hide_legend   : BOOLEAN ]

\* The options of a command line that the user passed.
PassedOptions(argv) ==
    { p \in { << "layout", "year_spacing" >>, << "visual", "max_lines" >> } :
        argv[p[2]] # << >> }
    \cup { p \in { << "layout", "smart_spacing" >> } : argv.smart_spacing }
    \cup { p \in { << "output", "show_legend" >> } : argv.hide_legend }

\* parser.parse_args(argv): the namespace, every option the user did not
\* pass holding the default create_parser gives it; the options are kept
\* under the section they override.
ParseArgs(argv) ==
    [ DefaultConfig EXCEPT
        !.layout.year_spacing =
            IF argv.year_spacing = << >> THEN @ ELSE argv.year_spacing[1],
        !.visual.max_lines =
            IF argv.max_lines = << >> THEN @ ELSE argv.max_lines[1],
        !.layout.smart_spacing = argv.smart_spacing,
        !.output.show_legend = ~argv.hide_legend ]

\* `if args.<option>:` for a value of the kind given
Truthy(kind, value) ==
    CASE kind = "str"    -> value # ""
      [] kind = "text"   -> value # << >>
      [] kind = "number" -> value # 0
      [] kind = "flag"   -> value
      [] kind = "always" -> TRUE

\* args_to_config_overrides: the overrides in the order they are added
ArgsToConfigOverrides(args) ==
    LET chosen == SelectSeq(CliOptions,
                      LAMBDA o : Truthy(o.kind, args[o.section][o.param]))
    IN  [ i \in 1..Len(chosen) |->
            [ section |-> chosen[i].section, param |-> chosen[i].param,
              value |-> args[chosen[i].section][chosen[i].param] ] ]

\* main(argv) with an input file: the exit code, the configuration the
\* generator was built with, and the output file afterwards
Main(a) ==
    LET args == ParseArgs(a.argv)
        b    == [ a EXCEPT !.overrides = ArgsToConfigOverrides(args) ]
        lc   == LoadConfig(b.config_file, b.overrides, b.yaml_available)
        r    == GenerateTimeline(b)
    IN  [ exit_code |-> IF r.raised = "none" THEN 0 ELSE 1,
          config |-> WithPaths(lc.config, b),
          output |-> r.output ]

\* main(argv), called directly
MainOp ==
    /\ last_op = "init"
    /\ result' = Main(call)
    /\ last_op' = "main"
    /\ UNCHANGED << generatorVars, call, threads >>

\* The data file of the command lines: two rows of two years.
CliData ==
    [ exists |-> TRUE, suffix |-> SuffixCsv,
      read |-> [ error |-> "none",
                 frame |-> [ columns |-> Range(REQUIRED_COLUMNS),
                             rows |-> << [ year |-> [ kind |-> "int", value |-> 2020 ],
                                           category |-> << "adaptive" >>,
                                           name |-> << "M" >>, ref |-> << "R" >> ],
                                         [ year |-> [ kind |-> "int", value |-> 2021 ],
                                           category |-> << "zeta" >>,
                                           name |-> << "M" >>, ref |-> << "R" >> ] >> ] ] ]

\* The runs of the command line: -i data.csv, -o left at its default, a
\* configuration file or none, and the options of CommandLines.
InitCli ==
    \E argv \in CommandLines, config_file \in ConfigFiles,
       yaml_available \in BOOLEAN :
        Given(DefaultConfig,
              [ argv |-> argv,
                input_path |-> "data.csv",
                input_file |-> CliData,
                output_path |-> "timeline.tex",
                output |-> NoFile,
                config_file |-> config_file,
                overrides |-> << >>,
                yaml_available |-> yaml_available ])

NextCli == MainOp

SpecCli == InitCli /\ [][NextCli]_vars

-----------------------------------------------------------------------------
(* Properties of the generated document.                                   *)

\* The braces of s match: as many "}" as "{", and no prefix of s holds more
\* "}" than "{".
BracesMatch(s) ==
    LET braces == { i \in 1..Len(s) : s[i] \in { "{", "}" } }
        opened(i) == Cardinality({ j \in braces : j <= i /\ s[j] = "{" })
        closed(i) == Cardinality({ j \in braces : j <= i /\ s[j] = "}" })
    IN  /\ \A i \in braces : closed(i) <= opened(i)
        /\ opened(Len(s)) = closed(Len(s))

\* The number of tokens of s equal to t.
Count(s, t) == Cardinality({ i \in 1..Len(s) : s[i] = t })

\* C1: the string generate returns has matching braces: as many "}" as "{",
\* and no prefix with more "}" than "{", with the legend on or off.
C1_BracesMatch ==
    last_op = "generate" => BracesMatch(out)

\* What a freshly constructed generator with the same configuration returns
\* for DataFrame d.
FreshOutput(d) == GenerateCall(cfg, d, << >>, << >>).latex_code

\* C2: a generate call returns the string a freshly constructed generator
\* returns for the same DataFrame and configuration, whatever the generator
\* generated before; so any two calls with the same DataFrame and
\* configuration, on one instance or on two, return identical strings.
C2_Deterministic ==
    last_op = "generate" => out = FreshOutput(arg)

\* C2 witness: a generate call on a generator whose engine still held the
\* year order of another DataFrame (and one repeating the same DataFrame).
C2_Witness ==
    /\ last_op = "generate"
    /\ order_before # << >>
    /\ order_before # year_order
    /\ cfg.time_logic.upper_years = RuleOrder

\* d with rows i and i+1 exchanged
Swap(d, i) ==
    [ k \in 1..Len(d) |-> IF k = i THEN d[i + 1] ELSE IF k = i + 1 THEN d[i] ELSE d[k] ]

\* C3 as stated: the output is the same for every order of the rows, two
\* rows of the same year exchanged included.
C3_OrderIrrelevant ==
    last_op = "generate" =>
        \A i \in 1..(Len(arg) - 1) : FreshOutput(Swap(arg, i)) = out

\* C3 amended: exchanging two neighbouring rows of different years never
\* changes the output, so the output depends only on each year's rows in
\* their file order.
C3_OrderIrrelevantAcrossYears ==
    last_op = "generate" =>
        \A i \in 1..(Len(arg) - 1) :
            arg[i].year # arg[i + 1].year => FreshOutput(Swap(arg, i)) = out

\* C3 witness: a document generated from rows that are not in year order.
C3_Witness ==
    /\ last_op = "generate"
    /\ Len(arg) = 3
    /\ arg[1].year > arg[2].year
    /\ arg[2].year > arg[3].year


-----------------------------------------------------------------------------
(* Properties of calculate_layout (specification SpecLayout).              *)

\* C4 as stated: with smart_spacing on, adjusted_spacing lies between
\* min_year_spacing and year_spacing for every configured pair of values;
\* with smart_spacing off, adjusted_spacing equals year_spacing.
C4_SpacingBounds ==
    last_op = "calculate_layout" =>
        IF cfg.layout.smart_spacing
        THEN /\ cfg.layout.min_year_spacing <= layout_params.adjusted_spacing
             /\ layout_params.adjusted_spacing <= cfg.layout.year_spacing
        ELSE layout_params.adjusted_spacing = cfg.layout.year_spacing

\* C4 amended: with smart_spacing on, adjusted_spacing is never below
\* min_year_spacing, and it is at most year_spacing whenever
\* min_year_spacing <= year_spacing (otherwise it equals min_year_spacing);
\* with smart_spacing off, adjusted_spacing equals year_spacing.
C4_SpacingBoundsWhenOrdered ==
    last_op = "calculate_layout" =>
        IF cfg.layout.smart_spacing
        THEN /\ cfg.layout.min_year_spacing <= layout_params.adjusted_spacing
             /\ IF cfg.layout.min_year_spacing <= cfg.layout.year_spacing
                THEN layout_params.adjusted_spacing <= cfg.layout.year_spacing
                ELSE layout_params.adjusted_spacing = cfg.layout.min_year_spacing
        ELSE layout_params.adjusted_spacing = cfg.layout.year_spacing

\* C4 witness: a smart layout whose spacing is the required width, strictly
\* between the minimum and the base spacing.
C4_Witness ==
    /\ last_op = "calculate_layout"
    /\ cfg.layout.smart_spacing
    /\ cfg.layout.min_year_spacing < layout_params.adjusted_spacing
    /\ layout_params.adjusted_spacing < cfg.layout.year_spacing

\* The largest number of rows of d that share a year, counted from d.
MostRowsInAYear(d) ==
    CHOOSE m \in 1..Len(d) :
        /\ \E y \in YearsOf(d) : Cardinality({ i \in 1..Len(d) : d[i].year = y }) = m
        /\ \A y \in YearsOf(d) : Cardinality({ i \in 1..Len(d) : d[i].year = y }) <= m

\* C5: adjusted_branch >= branch_distance always; with smart_spacing on it
\* is also >= max_nodes * 0.6 and is exactly the larger of the two; with
\* smart_spacing off it equals branch_distance.
C5_BranchBounds ==
    last_op = "calculate_layout" =>
        LET need == MostRowsInAYear(arg) * 6
            got  == layout_params.adjusted_branch
        IN  /\ got >= cfg.layout.branch_distance
            /\ cfg.layout.smart_spacing =>
                   /\ got >= need
                   /\ got \in { need, cfg.layout.branch_distance }
            /\ ~cfg.layout.smart_spacing => got = cfg.layout.branch_distance

\* C5 witness: a smart layout whose branch distance was raised above the
\* configured one by a year of three rows.
C5_Witness ==
    /\ last_op = "calculate_layout"
    /\ cfg.layout.smart_spacing
    /\ layout_params.max_nodes = 3
    /\ layout_params.adjusted_branch > cfg.layout.branch_distance

\* The zero-based rank of year y among the distinct years of d.
RankOfYear(d, y) == Cardinality({ z \in YearsOf(d) : z < y })

\* positions[y] = rank of y * adjusted_spacing, for every year of the data.
PositionsByRank ==
    /\ DOMAIN layout_params.positions = YearsOf(arg)
    /\ \A y \in YearsOf(arg) :
           layout_params.positions[y]
               = RankOfYear(arg, y) * layout_params.adjusted_spacing

\* positions are strictly increasing in the year.
PositionsIncrease ==
    \A y, z \in YearsOf(arg) :
        y < z => layout_params.positions[y] < layout_params.positions[z]

\* C6 as stated: positions[y_i] = i * adjusted_spacing, the first year at 0
\* and a uniform step, and positions strictly increasing in the year.
C6_Positions ==
    last_op = "calculate_layout" => PositionsByRank /\ PositionsIncrease

\* C6 amended: positions[y_i] = i * adjusted_spacing always; the positions
\* are strictly increasing in the year whenever adjusted_spacing is positive.
C6_PositionsWhenPositive ==
    last_op = "calculate_layout" =>
        /\ PositionsByRank
        /\ layout_params.adjusted_spacing > 0 => PositionsIncrease

\* C6 witness: three years with unequal gaps laid out at a positive spacing.
C6_Witness ==
    /\ last_op = "calculate_layout"
    /\ YearsOf(arg) = { 2020, 2021, 2023 }
    /\ layout_params.adjusted_spacing > 0
    /\ layout_params.positions[2023] = 2 * layout_params.adjusted_spacing

-----------------------------------------------------------------------------
(* Properties of determine_side (specification SpecSide).                  *)

\* The side the parity of the rank of year y in the data d gives; a year
\* that is not in d counts as rank 0.
SideByRank(d, y) ==
    IF y \notin YearsOf(d) \/ RankOfYear(d, y) % 2 = 0 THEN "above" ELSE "below"

\* C7: with the rule 'odd' ('even'), in any letter case, determine_side(y)
\* is 'above' exactly when y is odd (even); with a comma-separated list of
\* integers it is 'above' exactly when y is in the list; and the result is
\* the same whatever data the engine laid out before.
C7_ParityAndListRules ==
    last_op = "determine_side" =>
        LET rule  == cfg.time_logic.upper_years
            above == side_result = "above"
        IN  /\ rule \in { RuleOdd, RuleOddCaps, RuleEven, RuleList, RuleListOne,
                          RuleEmpty }
                 => side_result \in { "above", "below" } /\ ~warned
            /\ rule \in { RuleOdd, RuleOddCaps } => (above <=> side_query % 2 = 1)
            /\ rule = RuleEven    => (above <=> side_query % 2 = 0)
            /\ rule = RuleList    => (above <=> side_query \in { 2020, 2023 })
            /\ rule = RuleListOne => (above <=> side_query = 2021)
            /\ rule = RuleEmpty   => ~above

\* C7 witness: 'ODD' puts the odd year 2021 above although it is the second
\* year of the data the engine laid out.
C7_Witness ==
    /\ last_op = "determine_side"
    /\ cfg.time_logic.upper_years = RuleOddCaps
    /\ year_order = << 2020, 2021 >>
    /\ side_query = 2021
    /\ side_result = "above"

\* C8: with the rule 'order', 'sequence' or 'index' (any letter case), after
\* calculate_layout(df) determine_side(y) is 'above' exactly when the
\* zero-based index of y among the sorted distinct years of df is even; a
\* year that is not among them gets 'above'.
C8_OrderRule ==
    ( /\ last_op = "determine_side"
      /\ arg # << >>
      /\ cfg.time_logic.upper_years \in { RuleOrder, RuleSequence, RuleIndex } )
    => /\ side_result = SideByRank(arg, side_query)
       /\ ~warned

\* C8 witness: 'Sequence' puts the second of three years below.
C8_Witness ==
    /\ last_op = "determine_side"
    /\ cfg.time_logic.upper_years = RuleSequence
    /\ YearsOf(arg) = { 2020, 2021, 2023 }
    /\ side_query = 2021
    /\ side_result = "below"

\* s ends with the tokens of t
EndsWith(s, t) ==
    Len(s) >= Len(t) /\ SubSeq(s, Len(s) - Len(t) + 1, Len(s)) = t

\* s holds the tokens of t in a row
Contains(s, t) ==
    \E i \in 1..(Len(s) - Len(t) + 1) : SubSeq(s, i, i + Len(t) - 1) = t

\* A document generate returns is complete: all eight parts, with the
\* figure and the picture opened and closed, ending at \end{figure}.
CompleteDocument(r) ==
    /\ Len(r.parts) = 8
    /\ \A i \in 1..8 : r.parts[i] # << >>
    /\ Contains(r.parts[1], << "\\begin", "{", "figure", "}" >>)
    /\ Contains(r.parts[1], << "\\begin", "{", "tikzpicture", "}" >>)
    /\ Contains(r.parts[8], << "\\end", "{", "tikzpicture", "}" >>)
    /\ EndsWith(r.latex_code, << "\\end", "{", "figure", "}" >>)

\* C9: with a rule that is no keyword and holds a token that is not an
\* integer, determine_side logs the warning and returns the side the
\* 'order' rule gives (index parity in the current sorted year list), and
\* generate returns a complete document, the one the 'order' rule gives.
C9_FallbackToOrder ==
    ( /\ last_op = "determine_side"
      /\ cfg.time_logic.upper_years \in { RuleBadToken, RuleBadWord } )
    => /\ warned
       /\ side_result = IF arg = << >> THEN "above"
                        ELSE SideByRank(arg, side_query)
       /\ arg # << >> =>
            LET r == GenerateCall(cfg, arg, year_order, category_colors)
            IN  /\ CompleteDocument(r)
                /\ r.latex_code
                     = GenerateCall(WithRule(cfg, RuleOrder), arg, year_order,
                                    category_colors).latex_code

\* C9 witness: the rule "2020,x" warns and puts 2023, the third year of
\* the data, above, where a list holding only 2020 would have put it below.
C9_Witness ==
    /\ last_op = "determine_side"
    /\ cfg.time_logic.upper_years = RuleBadToken
    /\ warned
    /\ year_order = << 2020, 2021, 2023 >>
    /\ side_query = 2023
    /\ side_result = "above"

-----------------------------------------------------------------------------
(* Agreement of the sections of one document (specification Spec).         *)

\* The places of the method-node section where the node or matrix of year y
\* is positioned relative to the coordinate Y<y>.
PlacementsOf(nodes, y) ==
    { i \in 4..(Len(nodes) - 1) :
        nodes[i] = "cm of Y" /\ nodes[i + 1] = FmtYear(y) }

\* The places of the background section where the connector of year y starts.
ConnectorsOf(background, y) ==
    { i \in 1..(Len(background) - 3) :
        background[i] = "        \\draw[conn] (M" /\ background[i + 1] = FmtYear(y) }

\* C10: within one generate call the node or matrix of every year y is
\* placed 'above' Y<y> exactly when the connector of y starts at M<y>.south
\* and ends at the positive spine offset, and 'below' exactly when the
\* connector starts at M<y>.north and ends at the negative offset.
C10_SectionsAgree ==
    last_op = "generate" =>
        \A y \in YearsOf(arg) :
            /\ Cardinality(PlacementsOf(parts[4], y)) = 1
            /\ Cardinality(ConnectorsOf(parts[5], y)) = 1
            /\ \A i \in PlacementsOf(parts[4], y), j \in ConnectorsOf(parts[5], y) :
                 LET placed == parts[4][i - 3]
                     anchor == parts[5][j + 2]
                     offset == parts[5][j + 3]
                 IN  /\ placed \in { "above", "below" }
                     /\ placed = "above" <=>
                          anchor = ".south" /\ offset = ") -- ([yshift="
                     /\ placed = "below" <=>
                          anchor = ".north" /\ offset = ") -- ([yshift=-"

\* C10 witness: a document with a matrix of two rows above one year and a
\* single node below the next.
C10_Witness ==
    /\ last_op = "generate"
    /\ Len(arg) = 3
    /\ Len(year_order) = 2
    /\ Len(Group(arg, year_order[1])) = 2
    /\ \E i \in PlacementsOf(parts[4], year_order[1]) : parts[4][i - 3] = "above"
    /\ \E i \in PlacementsOf(parts[4], year_order[2]) : parts[4][i - 3] = "below"

-----------------------------------------------------------------------------
(* The keys of a layout (specification SpecLayout).                        *)

RECURSIVE SumOver(_, _)
\* The sum of f[x] over the elements x of S.
SumOver(f, S) ==
    IF S = {} THEN 0
    ELSE LET x == CHOOSE x \in S : TRUE IN f[x] + SumOver(f, S \ {x})

\* C11: after calculate_layout(df) the keys of positions, the keys of
\* year_counts and the list years are each exactly the distinct years of
\* df, with no year twice in the list, and the values of year_counts sum to
\* the number of records.
C11_LayoutKeys ==
    last_op = "calculate_layout" =>
        LET distinct == { arg[i].year : i \in 1..Len(arg) }
            lp == layout_params
        IN  /\ DOMAIN lp.positions = distinct
            /\ DOMAIN lp.year_counts = distinct
            /\ Range(lp.years) = distinct
            /\ Len(lp.years) = Cardinality(distinct)
            /\ SumOver(lp.year_counts, DOMAIN lp.year_counts) = Len(arg)

\* C11 witness: a layout of three records over two years, one year twice.
C11_Witness ==
    /\ last_op = "calculate_layout"
    /\ Len(arg) = 3
    /\ layout_params.years = << 2021, 2023 >>
    /\ layout_params.year_counts[2021] = 2

-----------------------------------------------------------------------------
(* The colour mapping of a generate call (specification Spec).             *)

\* The colours a configuration can give a category.
ColoursOf(colors) ==
    Range(DEFAULT_COLORS)
    \cup { LegacyMapping(colors)[c] : c \in DOMAIN LegacyMapping(colors) }

\* C12: the category-colour mapping computed in a generate call has as its
\* keys exactly the distinct categories of the dataset, and gives each of
\* them one colour.
C12_ColourKeys ==
    last_op = "generate" =>
        /\ DOMAIN category_colors = { arg[i].category : i \in 1..Len(arg) }
        /\ \A c \in DOMAIN category_colors :
               category_colors[c] \in ColoursOf(cfg.colors)

\* C12 witness: a generate call on a generator whose mapping held one
\* category, for a dataset with two.
C12_Witness ==
    /\ last_op = "generate"
    /\ order_before # << >>
    /\ Len(arg) = 3
    /\ DOMAIN category_colors = { "adaptive", "zeta" }
    /\ arg[1].category = arg[2].category

-----------------------------------------------------------------------------
(* get_category_colors (specification SpecColors).                         *)

\* The configured colour field of each of the seven known categories.
KnownColour(colors, c) ==
    CASE c = "singleproto" -> colors.color_single
      [] c = "multiproto"  -> colors.color_multi
      [] c = "adaptive"    -> colors.color_adaptive
      [] c = "vl"          -> colors.color_vl
      [] c = "dense"       -> colors.color_dense
      [] c = "attention"   -> colors.color_attention
      [] c = "hybrid"      -> colors.color_hybrid

\* The zero-based places category c takes in the sorted list of cats.
RanksOf(cats, c) ==
    LET below == Cardinality({ i \in 1..Len(cats) :
                                 LexLess(Spell(cats[i]), Spell(c)) })
        same  == Cardinality({ i \in 1..Len(cats) : cats[i] = c })
    IN  below..(below + same - 1)

\* C13: get_category_colors maps each of the seven known categories to its
\* configured colour field whatever other categories are present, and every
\* other category to palette[r mod palette size], r being the category's
\* rank in the sorted list of the categories passed in.
C13_KnownAndPalette ==
    last_op = "get_category_colors" =>
        \A c \in Range(call.categories) :
            IF c \in Range(SevenKnown)
            THEN result[c] = KnownColour(call.colors, c)
            ELSE \E r \in RanksOf(call.categories, c) :
                     result[c] = DEFAULT_COLORS[(r % 20) + 1]

\* C13 witness: of twenty-two categories the twenty-first in sorted order
\* gets the palette's first colour again and the next one the second, while
\* a known category keeps the colour configured for it.
C13_Witness ==
    /\ last_op = "get_category_colors"
    /\ call.categories = Fillers \o << "adaptive", "cnn" >>
    /\ result["bs"] = DEFAULT_COLORS[20]
    /\ result["bt"] = DEFAULT_COLORS[1]
    /\ result["cnn"] = DEFAULT_COLORS[2]
    /\ result["adaptive"] = << "blue" >>

-----------------------------------------------------------------------------
(* The method-node section (specification SpecNodes).                      *)

\* The places of section s where a matrix container of year y opens.
MatricesOf(s, y) ==
    { i \in 1..(Len(s) - 5) :
        s[i] = "    \\matrix[methodmatrix, " /\ s[i + 5] = FmtYear(y) }

\* The places of s where the single node of record r stands.
SinglesOf(s, r) ==
    { i \in 1..(Len(s) - 12) :
        /\ s[i] = "    \\node[" /\ s[i + 1] = r.category
        /\ s[i + 7] = FmtYear(r.year) /\ s[i + 12] = r.name }

\* The places of s where the matrix cell of record r stands.
CellsOf(s, r) ==
    { i \in 1..(Len(s) - 4) :
        s[i] = "        \\node[" /\ s[i + 1] = r.category /\ s[i + 4] = r.name }

\* The places of s where a container or a single node opens.
OpeningsOf(s) ==
    { i \in 1..Len(s) :
        s[i] \in { "    \\matrix[methodmatrix, ", "    \\node[" } }

\* C14: in the method-node section a year with k > 1 records has exactly
\* one matrix container and exactly k node cells, one per record and inside
\* that container, for every k, odd k > 3 included; a year with one record
\* has exactly one node and no container.
C14_NodesPerYear ==
    last_op = "generate_method_nodes" =>
        LET d == call.df
            rowsOf(y) == { i \in 1..Len(d) : d[i].year = y }
            many == { i \in 1..Len(d) : Cardinality(rowsOf(d[i].year)) > 1 }
        IN  /\ \A i \in many :
                 /\ Cardinality(MatricesOf(result, d[i].year)) = 1
                 /\ Cardinality(CellsOf(result, d[i])) = 1
                 /\ SinglesOf(result, d[i]) = {}
                 /\ \A m \in MatricesOf(result, d[i].year),
                       j \in CellsOf(result, d[i]) :
                        m < j /\ \A o \in OpeningsOf(result) : ~(m < o /\ o < j)
            /\ \A i \in (1..Len(d)) \ many :
                 /\ MatricesOf(result, d[i].year) = {}
                 /\ Cardinality(SinglesOf(result, d[i])) = 1
                 /\ CellsOf(result, d[i]) = {}
            /\ Count(result, "        \\node[") = Cardinality(many)
            /\ Count(result, "    \\node[") = Len(d) - Cardinality(many)

\* C14 witness: a section for five records of one year, an odd k > 3.
C14_Witness ==
    /\ last_op = "generate_method_nodes"
    /\ Len(call.df) = 5
    /\ \A i \in 1..5 : call.df[i].year = 2021
    /\ Count(result, "        \\node[") = 5

-----------------------------------------------------------------------------
(* The axis section of a document (specification Spec).                    *)

\* The places of the axis section where the arrow loop opens.
ArrowLoopsOf(axis) ==
    { i \in 1..Len(axis) : axis[i] = "    \\foreach \\year/\\nextyear in " }

\* The tokens of the axis section from place i up to the next "}".
UpToBrace(axis, i) ==
    LET close == CHOOSE j \in i..Len(axis) :
                     axis[j] = "}" /\ \A k \in i..(j - 1) : axis[k] # "}"
    IN  SubSeq(axis, i, close - 1)

\* C15: for a dataset with n distinct years the axis section holds exactly
\* max(n-1, 0) arrow pairs, one for each two consecutive years in ascending
\* order; for n <= 1 no arrow loop is emitted at all.
C15_ArrowPairs ==
    last_op = "generate" =>
        LET axis  == parts[3]
            years == { arg[i].year : i \in 1..Len(arg) }
            next(y) == CHOOSE z \in years :
                           z > y /\ \A w \in years : w > y => z <= w
            expected == { ToString(y) \o "/" \o ToString(next(y)) :
                            y \in { v \in years : \E z \in years : z > v } }
        IN  IF Cardinality(years) <= 1
            THEN /\ ArrowLoopsOf(axis) = {}
                 /\ Count(axis, "        \\draw[arrow] (Y\\year) -- (Y\\nextyear);") = 0
            ELSE /\ Cardinality(ArrowLoopsOf(axis)) = 1
                 /\ \A i \in ArrowLoopsOf(axis) :
                      LET pairs == SelectSeq(UpToBrace(axis, i + 2),
                                             LAMBDA t : t # ",")
                      IN  /\ axis[i + 1] = "{"
                          /\ Len(pairs) = Cardinality(years) - 1
                          /\ Range(pairs) = expected
                          /\ \A a, b \in 1..Len(pairs) :
                                 a < b => pairs[a] # pairs[b]
                          /\ pairs[1] = ToString(CHOOSE y \in years :
                                                   \A z \in years : y <= z)
                                        \o "/" \o ToString(next(CHOOSE y \in years :
                                                   \A z \in years : y <= z))

\* C15 witness: the axis of three years with the pairs 2020/2021 and
\* 2021/2023, from rows given in another order.
C15_Witness ==
    /\ last_op = "generate"
    /\ arg[1].year = 2023
    /\ \E i \in ArrowLoopsOf(parts[3]) :
           UpToBrace(parts[3], i + 2) = << "2020/2021", ",", "2021/2023" >>

-----------------------------------------------------------------------------
(* The order of the sections of a document (specification Spec).           *)

\* The line each of the eight sections is known by, in the order of the
\* claim: preamble, styles, axis, method nodes, background connectors, year
\* markers, bounding box, caption and legend.
SectionMarks ==
    << "% Required packages/settings (add these in LaTeX preamble):",
       "    % Category color definitions",
       "    % 1. Draw timeline axis and define year coordinates",
       "    % 2. Define all method nodes",
       "    % 3. Draw all connections in background layer",
       "    % 4. Draw year nodes on top layer",
       "    % 5. Extend bounding box",
       "\\caption" >>

\* C16: the string generate returns is made of exactly eight sections in
\* the fixed order preamble, style table, axis, method nodes, background
\* connectors, year markers, bounding-box extension, caption and legend;
\* none is omitted, repeated or reordered.
C16_EightSections ==
    last_op = "generate" =>
        /\ Len(parts) = 8
        /\ out = parts[1] \o << NL >> \o parts[2] \o << NL >> \o parts[3]
                   \o << NL >> \o parts[4] \o << NL >> \o parts[5]
                   \o << NL >> \o parts[6] \o << NL >> \o parts[7]
                   \o << NL >> \o parts[8]
        /\ \A k \in 1..8 :
               /\ Count(out, SectionMarks[k]) = 1
               /\ Count(parts[k], SectionMarks[k]) = 1
        /\ \A k \in 1..7 :
               IndexOf(out, SectionMarks[k]) < IndexOf(out, SectionMarks[k + 1])

\* C16 witness: a document for three records of two years, with a matrix
\* in its node section, holding the eight sections.
C16_Witness ==
    /\ last_op = "generate"
    /\ Len(arg) = 3
    /\ Len(year_order) = 2
    /\ Count(parts[4], "    \\matrix[methodmatrix, ") = 1
    /\ Count(out, "\\caption") = 1

-----------------------------------------------------------------------------
(* What a generate call changes (specification Spec).                      *)

-----------------------------------------------------------------------------
(* Concurrent generate calls (specification SpecThreads).                  *)

\* C18: two generate calls running at the same time on separate generator
\* instances, each with its own configuration and dataset, each return the
\* string the same call returns when it runs alone, whatever the
\* interleaving of their steps.
C18_ConcurrentAsAlone ==
    \A i \in Instances :
        threads.gen[i].pc = "done" =>
            threads.gen[i].out =
                GenerateCall(threads.gen[i].cfg, threads.gen[i].df,
                             << >>, << >>).latex_code

\* C18 witness: both calls have returned after steps of each were taken
\* while the other was inside generate, on datasets whose year orders
\* differ.
C18_Witness ==
    /\ threads.overlap
    /\ \A i \in Instances : threads.gen[i].pc = "done"
    /\ threads.engine[1] = << 2020, 2021 >>
    /\ threads.engine[2] = << 2021 >>
    /\ threads.gen[1].out # threads.gen[2].out

-----------------------------------------------------------------------------
(* Merged configurations (specification SpecMerge).                        *)

\* C19: base.merge(other) returns a configuration in which every field of
\* every section has other's value where other explicitly set that field
\* and base's value everywhere else, so that a non-default value of base
\* survives a merge with an override that left the field untouched.
C19_MergeKeepsBase ==
    last_op = "merge" =>
        \A section \in DOMAIN result :
            \A f \in DOMAIN result[section] :
                result[section][f] =
                    IF << section, f >> \in call.set
                    THEN call.other[section][f]
                    ELSE call.base[section][f]

-----------------------------------------------------------------------------
(* Validation of categories (specification SpecValidate).                  *)

\* C20: validate_dataframe raises ValidationError for a dataset in which
\* some record's category is not one of the known categories, even when
\* every other check passes: the frame is not empty, has every required
\* column, no null cell, and only numeric years.
C20_UnknownCategoryRejected ==
    last_op = "validate_dataframe" =>
        ( ( /\ ~IsEmpty(call.df)
            /\ ValidateColumns(call.df) = "none"
            /\ ValidateNullValues(call.df) = "none"
            /\ ValidateYears(call.df).raised = "none"
            /\ \E i \in 1..Len(call.df.rows) :
                   call.df.rows[i].category[1] \notin Range(SevenKnown) )
          => result.raised # "none" )

-----------------------------------------------------------------------------
(* The order of the validator's checks (specification SpecValidate).       *)

\* The checks of the claim, in its order, each with the frames that fail
\* it, read off the frame's cells.
FailedChecks(frame) ==
    << frame.rows = << >> \/ frame.columns = { },
       \E col \in { "year", "category", "name", "ref" } :
           col \notin frame.columns,
       \E i \in 1..Len(frame.rows) :
           \/ frame.rows[i].year.kind = "null"
           \/ frame.rows[i].category = << >>
           \/ frame.rows[i].name = << >>
           \/ frame.rows[i].ref = << >>,
       \A i \in 1..Len(frame.rows) : frame.rows[i].category = << >>,
       \E i \in 1..Len(frame.rows) : frame.rows[i].year.kind # "int" >>

CheckErrors ==
    << "empty", "missing_columns", "null_values", "no_categories",
       "invalid_years" >>

\* C21: validate_dataframe applies its checks in the order empty, required
\* columns, null values, categories, years and raises the error of the first
\* one that fails; it returns without error only for a frame that is not
\* empty, has the four required columns, no null in them and only numeric
\* years.
C21_FirstFailureRaised ==
    last_op = "validate_dataframe" =>
        LET failed == FailedChecks(call.df) IN
        /\ \A k \in 1..5 :
               ( failed[k] /\ \A j \in 1..(k - 1) : ~failed[j] )
                   => result.raised = CheckErrors[k]
        /\ result.raised = "none" =>
               ( ~failed[1] /\ ~failed[2] /\ ~failed[3] /\ ~failed[5] )
        /\ ( \A k \in 1..5 : ~failed[k] ) => result.raised = "none"

\* C21 witness: a frame with a null name in one row and a year that is no
\* number in another, for which the error of the null check is raised.
C21_Witness ==
    /\ last_op = "validate_dataframe"
    /\ Len(call.df.rows) = 2
    /\ call.df.columns = Range(REQUIRED_COLUMNS)
    /\ call.df.rows[1].year.kind = "text"
    /\ call.df.rows[2].name = << >>
    /\ result.raised = "null_values"

-----------------------------------------------------------------------------
(* Errors of the file loader (specification SpecFiles).                    *)

\* The path of the called file has neither the suffix .csv nor .json.
Unsupported ==
    Lower(call.file.suffix) \notin { SuffixCsv, SuffixJson }

-----------------------------------------------------------------------------
(* The output file of generate_timeline (specification SpecTimeline).      *)

\* C23: generate_timeline never leaves a partial document: when loading,
\* validation or generation raises, the output file is as it was before the
\* call, neither created nor modified; when the call returns and an output
\* path was given, the file holds the complete string generate returned.
C23_NoPartialDocument ==
    last_op = "generate_timeline" =>
        /\ result.raised # "none" =>
               ( result.output = call.output /\ result.latex_code = << >> )
        /\ result.raised = "none" =>
               /\ EndsWith(result.latex_code, << "\\end", "{", "figure", "}" >>)
               /\ result.output =
                      IF call.output_path # ""
                      THEN [ exists |-> TRUE, text |-> result.latex_code ]
                      ELSE call.output

\* C23 witness: validation of the loaded data raised in a call with an
\* output path, and the output file does not exist afterwards.
C23_Witness ==
    /\ last_op = "generate_timeline"
    /\ call.output_path = "out.tex"
    /\ call.output = NoFile
    /\ call.input_file.exists
    /\ call.input_file.read.error = "none"
    /\ Len(call.input_file.read.frame.rows) = 2
    /\ result.raised = "ValidationError"
    /\ ~result.output.exists

-----------------------------------------------------------------------------
(* Named coordinates of a document (specification Spec).                   *)

\* The places of s where the token lead stands.
PlacesOf(s, lead) == { i \in 1..(Len(s) - 1) : s[i] = lead }

\* The tokens that open a definition of Y<y> and of M<y>, those followed by
\* the year of a Y<y> or M<y> that is used, and those that open a loop over
\* years or pairs of years.
DefinesY == "    \\coordinate (Y"
DefinesM == "] (M"
UsesY    == { "cm of Y", "cm]Y" }
UsesM    == { "        \\draw[conn] (M" }
LoopsY   == { "    \\foreach \\year/\\nextyear in ",
              "        \\foreach \\year in ", "    \\foreach \\year in " }

\* The items of the loop opened at place i of s: the tokens between its
\* braces that are no commas.
LoopItems(s, i) == Range(UpToBrace(s, i + 2)) \ { "," }

\* C24: in the output of generate every named coordinate is defined exactly
\* once and before its first use: every year y of the dataset has one
\* definition of Y<y>, in the axis section, and one node or matrix named
\* M<y>, in the node section; no other Y or M is defined; and every Y<y> or
\* M<y> that an arrow, spine, connector, placement or year marker refers to
\* is of a year of the dataset and stands after the definition.
C24_CoordinatesDefinedOnce ==
    last_op = "generate" =>
        LET years == YearsOf(arg)
            names == { FmtYear(y) : y \in years }
            pairs == { FmtYear(a) \o "/" \o FmtYear(b) : a \in years, b \in years }
            sect(k) == IndexOf(out, SectionMarks[k])
            defY  == PlacesOf(out, DefinesY)
            defM  == PlacesOf(out, DefinesM)
            useY  == UNION { PlacesOf(out, t) : t \in UsesY }
            useM  == UNION { PlacesOf(out, t) : t \in UsesM }
            loops == UNION { PlacesOf(out, t) : t \in LoopsY }
        IN  /\ \A y \in years :
                   /\ Cardinality({ i \in defY : out[i + 1] = FmtYear(y) }) = 1
                   /\ Cardinality({ i \in defM : out[i + 1] = FmtYear(y) }) = 1
            /\ \A i \in defY :
                   out[i + 1] \in names /\ sect(3) < i /\ i < sect(4)
            /\ \A i \in defM :
                   out[i + 1] \in names /\ sect(4) < i /\ i < sect(5)
            /\ \A i \in useY :
                   out[i + 1] \in names /\ \A j \in defY : j < i
            /\ \A i \in useM :
                   out[i + 1] \in names /\ \A j \in defM : j < i
            /\ \A i \in loops :
                   /\ LoopItems(out, i) \subseteq names \cup pairs
                   /\ \A j \in defY : j < i
            /\ Cardinality(useM) = Cardinality(years)
            /\ Cardinality(loops) = IF Cardinality(years) > 1 THEN 3 ELSE 2

\* C24 witness: a document for two years, one with a single node and one
\* with a matrix, whose arrow loop refers to both years.
C24_Witness ==
    /\ last_op = "generate"
    /\ YearsOf(arg) = { 2020, 2021 }
    /\ Len(arg) = 3
    /\ Count(out, DefinesY) = 2
    /\ Count(out, DefinesM) = 2
    /\ Count(out, "    \\matrix[methodmatrix, ") = 1
    /\ Count(out, "2020/2021") = 1

-----------------------------------------------------------------------------
(* The rows of a matrix (specification SpecNodes).                         *)

\* The tokens that end a cell: the first continues its row, the second
\* ends it.
CellContinues == "; &"
CellEndsRow   == "; \\\\"

\* The token that ends the cell standing at place i of s.
EndOfCell(s, i) ==
    LET ends == { CellContinues, CellEndsRow }
        j == CHOOSE j \in i..Len(s) :
                 s[j] \in ends /\ \A k \in i..(j - 1) : s[k] \notin ends
    IN  s[j]

\* The place of s where the cell of record r stands.
CellOf(s, r) == CHOOSE i \in CellsOf(s, r) : TRUE

\* C25: in the matrix of a year with k records the cells stand in the
\* records' file order; when k > 3 the record at every even index i (from
\* 0) shares its row with the record at i+1, a last record at an even index
\* standing alone, which gives ceil(k/2) rows; when k is 2 or 3 every
\* record has a row of its own, which gives k rows.
C25_MatrixRows ==
    last_op = "generate_method_nodes" =>
        \A y \in YearsOf(call.df) :
            LET group == Group(call.df, y)
                k     == Len(group)
                ends  == [ j \in 1..k |-> EndOfCell(result, CellOf(result, group[j])) ]
                rows  == Cardinality({ j \in 1..k : ends[j] = CellEndsRow })
            IN  k >= 2 =>
                  /\ \A j \in 1..k : Cardinality(CellsOf(result, group[j])) = 1
                  /\ \A j \in 1..(k - 1) :
                         CellOf(result, group[j]) < CellOf(result, group[j + 1])
                  /\ k > 3 =>
                         /\ \A j \in 1..k :
                                ( ends[j] = CellContinues )
                                    <=> ( (j - 1) % 2 = 0 /\ j < k )
                         /\ rows = (k + 1) \div 2
                  /\ k \in { 2, 3 } =>
                         /\ \A j \in 1..k : ends[j] = CellEndsRow
                         /\ rows = k

\* C25 witness: a node section with a matrix of five records, whose last
\* cell stands alone in the third row.
C25_Witness ==
    /\ last_op = "generate_method_nodes"
    /\ Len(call.df) = 5
    /\ YearsOf(call.df) = { 2021 }
    /\ Count(result, CellContinues) = 2
    /\ Count(result, CellEndsRow) = 3
    /\ EndOfCell(result, CellOf(result, call.df[5])) = CellEndsRow

-----------------------------------------------------------------------------
(* The legend of a document (specification Spec).                          *)

\* The token that opens a swatch of the legend, and the one that follows
\* its colours.
SwatchOpens == "\\protect\\tikz[baseline=-0.5ex]\\protect\\node[fill="
SwatchShape == ",rounded corners=2pt,inner sep=2pt,font=\\tiny] "

\* The tokens of s from place i up to the first token stop.
Before(s, i, stop) ==
    LET j == CHOOSE j \in i..Len(s) :
                 s[j] = stop /\ \A k \in i..(j - 1) : s[k] # stop
    IN  SubSeq(s, i, j - 1)

\* The swatch that opens at place i of the caption section: its fill and
\* border colours and the category it labels.
SwatchAt(caption, i) ==
    LET fill   == Before(caption, i + 1, ",draw=")
        border == Before(caption, i + Len(fill) + 2, SwatchShape)
    IN  [ fill |-> fill, border |-> border,
          category |-> caption[i + Len(fill) + Len(border) + 4] ]

\* The fill and border colours of the style block of category cat in the
\* style section.
StyleOf(styles, cat) ==
    LET p == CHOOSE p \in 1..(Len(styles) - 1) :
                 styles[p] = cat /\ styles[p + 1] = "/.style="
        fill   == Before(styles, p + 5, ", draw=")
        border == Before(styles, p + Len(fill) + 6, ", line width=")
    IN  [ fill |-> fill, border |-> border ]

\* C26: with the legend enabled the caption section of a generate call
\* holds exactly one swatch for each distinct category of the dataset, in
\* sorted category order, with the fill and border colours of that
\* category's style block in the same output; with the legend disabled it
\* holds no swatch.
C26_LegendSwatches ==
    last_op = "generate" =>
        LET caption == parts[8]
            places  == SortedInts(PlacesOf(caption, SwatchOpens))
            sorted  == SortedCats({ arg[i].category : i \in 1..Len(arg) })
        IN  IF cfg.output.show_legend
            THEN /\ Len(places) = Len(sorted)
                 /\ \A k \in 1..Len(places) :
                        LET swatch == SwatchAt(caption, places[k]) IN
                        /\ swatch.category = sorted[k]
                        /\ swatch.fill = StyleOf(parts[2], sorted[k]).fill
                        /\ swatch.border = StyleOf(parts[2], sorted[k]).border
                        /\ swatch.fill = category_colors[sorted[k]]
            ELSE places = << >>

\* C26 witness: a document with the legend enabled for a dataset whose
\* first record is of the category that sorts last, holding two swatches.
C26_Witness ==
    /\ last_op = "generate"
    /\ cfg.output.show_legend
    /\ Len(arg) = 3
    /\ arg[1].category = "zeta"
    /\ arg[2].category = "adaptive"
    /\ Count(parts[8], SwatchOpens) = 2
    /\ SwatchAt(parts[8], IndexOf(parts[8], SwatchOpens)).category = "adaptive"

-----------------------------------------------------------------------------
(* Concurrent generate calls on one generator (specification SpecShared).  *)

\* C27: when two generate calls on the same generator instance with
\* different datasets interleave at the granularity of their
\* section-building steps, neither call fails and each returns the string
\* it returns when run alone.
C27_SharedInstanceAsAlone ==
    \A i \in Instances :
        LET g == threads.gen[i] IN
        ( threads.gen[1].self = threads.gen[2].self
          /\ threads.gen[1].df # threads.gen[2].df )
            => /\ g.pc # "failed"
               /\ g.pc = "done" =>
                      g.out = GenerateCall(g.cfg, g.df, << >>, << >>).latex_code

-----------------------------------------------------------------------------
(* The distribution of nodes (specification SpecDistribution).             *)

\* C28: get_node_distribution(df) gives every year of df the side the
\* configured rule yields for df's own sorted distinct years; for each year
\* one of 'above' and 'below' is its record count and the other 0, and
\* 'total' is their sum; whatever calls were made on the engine before.
C28_DistributionOfOwnYears ==
    last_op = "get_node_distribution" =>
        /\ DOMAIN result = YearsOf(arg)
        /\ \A y \in YearsOf(arg) :
               LET own   == DetermineSide(cfg.time_logic, SortedYears(arg), y).side
                   count == Cardinality({ i \in 1..Len(arg) : arg[i].year = y })
               IN  /\ result[y].total = result[y].above + result[y].below
                   /\ result[y].total = count
                   /\ result[y].above = IF own = "above" THEN count ELSE 0
                   /\ result[y].below = IF own = "below" THEN count ELSE 0

-----------------------------------------------------------------------------
(* The configuration a command line runs with (specification SpecCli).     *)

\* C29: when the command line names a configuration file and an option is
\* not given on the command line, the configuration used for generation
\* holds the configuration file's value for that field; only the options
\* the user passed override the file.
C29_FileValuesKept ==
    ( last_op = "main" /\ call.config_file.given /\ result.exit_code = 0 ) =>
        LET file   == FromDict(ConfigDatas[call.config_file.data])
            passed == PassedOptions(call.argv)
        IN  \A i \in 1..Len(CliOptions) :
                LET section == CliOptions[i].section
                    param   == CliOptions[i].param
                IN  << section, param >> \notin passed =>
                        result.config[section][param] = file[section][param]

-----------------------------------------------------------------------------
(* Distinct colours (specification SpecColors).                            *)

\* C30: under the default colour configuration, for every list of at most
\* twenty distinct categories (the palette size), get_category_colors gives
\* different categories different fill colours, also when known and unknown
\* categories are mixed.
C30_DistinctColours ==
    ( /\ last_op = "get_category_colors"
      /\ call.colors = DefaultColors
      /\ Cardinality(Range(call.categories)) <= Len(DEFAULT_COLORS) ) =>
        \A c1 \in Range(call.categories), c2 \in Range(call.categories) :
            c1 # c2 => result[c1] # result[c2]
=============================================================================
